---- MODULE Spec2Model ----
(***************************************************************************)
(* report-template: the report generator (generator.py), the JIRA sync    *)
(* (jira_client.py) and the Confluence publisher (confluence_client.py).  *)
(*                                                                         *)
(* Python values are tagged records, so that None, strings, lists and     *)
(* enum members are distinct values that can be compared with each other: *)
(*   None            [none |-> TRUE]                                       *)
(*   a str           [str |-> "..."]                                       *)
(*   an enum member  [enum |-> <class>, value |-> <its str value>]         *)
(* A call's outcome is Return(v) or Raise(e).                              *)
(***************************************************************************)
EXTENDS Integers, Sequences, FiniteSets, TLC

VARIABLES
    templates,            \* names of the files in ReportGenerator.templates_dir
    weasyprint_available, \* formatters/pdf.py WEASYPRINT_AVAILABLE
    files,                \* the file system: file name -> what was written, or NoFile
    ncalls,               \* number of generate_to_file calls made so far
    report_data,          \* the record (or raw mapping) the reports are generated from
    call,                 \* the last call of the generator's API and its arguments
    used_format,          \* generate_to_file: output_format once inferred (None outside it)
    used_template,        \* generate: template_name once resolved (None when not resolved)
    result,               \* what that call returned or raised
    jira_server,          \* the issue tracker: issue key -> its response to a GET
    task_list,            \* the task list passed to sync_tasks
    sync,                 \* None before sync_tasks ran, then what it returned, sent and printed
    wiki,                 \* the Confluence server: (space key, title) -> page or None
    next_id,              \* the id the wiki gives the next page created
    client,               \* each create_or_update_page caller: position, arguments, locals
    conf_requests,        \* the requests the wiki received, with its responses
    watched,              \* the arguments of the generate call whose outputs are compared
    first_result,         \* what the first generate call with the watched arguments gave
    failed_pdf,           \* whether a PDF conversion of this generator failed as unavailable
    between,              \* whether another generate call ran after the first watched one
    model_call,           \* the last construction of a models.py record: class and keywords
    model_result,         \* what that construction returned or raised
    python_docx_available, \* formatters/docx.py PYTHON_DOCX_AVAILABLE
    docx_call,            \* the last call of create_docx_report: report_type and data
    docx_result,          \* what that call returned or raised
    fn_call,              \* the last call of a helper function and its arguments
    fn_result             \* what that call returned or raised

genVars ==
    <<templates, weasyprint_available, files, ncalls, report_data, call, used_format,
      used_template, result>>

jiraVars == <<jira_server, task_list, sync>>

confVars == <<wiki, next_id, client, conf_requests>>

sessVars == <<watched, first_result, failed_pdf, between>>

modelVars == <<model_call, model_result>>

docxVars == <<python_docx_available, docx_call, docx_result>>

fnVars == <<fn_call, fn_result>>

vars == <<genVars, jiraVars, confVars, sessVars, modelVars, docxVars, fnVars>>

-----------------------------------------------------------------------------
(* Python values *)

None == [none |-> TRUE]

Str(s) == [str |-> s]

Return(v) == [raised |-> FALSE, value |-> v]

Raise(e) == [raised |-> TRUE, error |-> e]

-----------------------------------------------------------------------------
(* Bounds *)

\* generate_to_file calls in one behaviour
MaxCalls == 1

\* tasks in the list passed to sync_tasks
MaxTasks == 2

\* how far below 0 and above 100 the completion percentages tried go
Margin == 3

\* the version number up to which pages are edited outside the clients
MaxVersion == 3

-----------------------------------------------------------------------------
(* models.py: the enumerations *)

ReportType_FEATURE_DEV == [enum |-> "ReportType", value |-> "feature_dev"]

ReportType_PROGRAM_MGMT == [enum |-> "ReportType", value |-> "program_mgmt"]

ReportType_ENGINEERING_INIT == [enum |-> "ReportType", value |-> "engineering_init"]

\* iteration order of `for report_type in ReportType`
ReportType == <<ReportType_FEATURE_DEV, ReportType_PROGRAM_MGMT, ReportType_ENGINEERING_INIT>>

OutputFormat_MARKDOWN == [enum |-> "OutputFormat", value |-> "markdown"]

OutputFormat_HTML == [enum |-> "OutputFormat", value |-> "html"]

OutputFormat_PDF == [enum |-> "OutputFormat", value |-> "pdf"]

OutputFormat_DOCX == [enum |-> "OutputFormat", value |-> "docx"]

\* iteration order of `for output_format in OutputFormat`
OutputFormat == <<OutputFormat_MARKDOWN, OutputFormat_HTML, OutputFormat_PDF, OutputFormat_DOCX>>

Range(seq) == {seq[i] : i \in 1..Len(seq)}

-----------------------------------------------------------------------------
(* str and pathlib operations the generator uses *)

UpperLetters == "ABCDEFGHIJKLMNOPQRSTUVWXYZ"

LowerLetters == "abcdefghijklmnopqrstuvwxyz"

\* the lower-case letter of every upper-case letter
LowerOf ==
    [c \in {SubSeq(UpperLetters, i, i) : i \in 1..Len(UpperLetters)} |->
        LET i == CHOOSE j \in 1..Len(UpperLetters) : SubSeq(UpperLetters, j, j) = c
        IN SubSeq(LowerLetters, i, i)]

\* str.lower() on one character
LowerChar(c) == IF c \in DOMAIN LowerOf THEN LowerOf[c] ELSE c

RECURSIVE Lower(_)
\* str.lower()
Lower(s) ==
    IF Len(s) = 0 THEN ""
    ELSE LowerChar(SubSeq(s, 1, 1)) \o Lower(SubSeq(s, 2, Len(s)))

RECURSIVE RFind(_, _, _)
\* the last position <= i of character c in s (1-based), 0 when there is none
RFind(s, c, i) ==
    IF i = 0 THEN 0
    ELSE IF SubSeq(s, i, i) = c THEN i
    ELSE RFind(s, c, i - 1)

\* Path(name).suffix: from the last dot on, unless the dot is the first or the
\* last character of the name or there is none
Suffix(name) ==
    LET i == RFind(name, ".", Len(name))
    IN IF 1 < i /\ i < Len(name) THEN SubSeq(name, i, Len(name)) ELSE ""

-----------------------------------------------------------------------------
(* generator.py *)

\* ReportGenerator._get_template_name: format_ext
format_ext ==
    (OutputFormat_MARKDOWN :> "md") @@ (OutputFormat_HTML :> "html") @@
    (OutputFormat_PDF :> "html")

\* ReportGenerator._get_template_name; format_ext[output_format] raises KeyError
\* for a format that is no key of format_ext
GetTemplateName(report_type, output_format) ==
    IF output_format \in DOMAIN format_ext
    THEN Return(report_type.value \o "." \o format_ext[output_format] \o ".j2")
    ELSE Raise("KeyError")

\* formatters/pdf.py html_to_pdf
\* html_to_pdf without the WEASYPRINT_AVAILABLE test: empty bytes when unavailable
html_to_pdf_Silent(html_content) ==
    IF ~weasyprint_available THEN Return([pdf_bytes |-> ""])
    ELSE Return([pdf_bytes |-> html_content])

html_to_pdf(html_content) ==
    IF ~weasyprint_available THEN Raise("ImportError")
    ELSE Return([pdf_bytes |-> html_content])

\* generate: report_data.model_dump(mode="python") for a model, the mapping itself otherwise
DataDict(data) ==
    IF "model" \in DOMAIN data THEN [dict |-> data.model]
    ELSE data

\* mutant of GetTemplate: a missing template falls back to the feature_dev Markdown one
GetTemplate_Fallback(template_name) ==
    IF template_name \in templates THEN Return(template_name)
    ELSE IF "feature_dev.md.j2" \in templates THEN Return("feature_dev.md.j2")
    ELSE Raise("TemplateNotFound")

\* self.env.get_template(template_name): FileSystemLoader over templates_dir
GetTemplate(template_name) ==
    IF template_name \in templates THEN Return(template_name)
    ELSE Raise("TemplateNotFound")

\* template.render(**data_dict): the text the named template produces from the data
Render(template, data_dict) == [text |-> [template |-> template, data |-> data_dict]]

\* generate: template_name after `if template_name is None: template_name = ...`
ResolveTemplateName(report_type, output_format, template_name) ==
    IF template_name = None
    THEN GetTemplateName(report_type, output_format)
    ELSE Return(template_name.str)

\* generate on a generator that remembers its template: the one the call before loaded
Generate_Sticky(data, report_type, output_format, template_name) ==
    LET data_dict == DataDict(data)
        name == IF used_template # None THEN Return(used_template.str)
                ELSE ResolveTemplateName(report_type, output_format, template_name)
    IN IF name.raised THEN name
       ELSE LET template == GetTemplate(name.value)
            IN IF template.raised THEN template
               ELSE LET rendered == Render(template.value, data_dict)
                    IN IF output_format = OutputFormat_PDF
                       THEN html_to_pdf(rendered)
                       ELSE Return(rendered)

\* ReportGenerator.generate
Generate(data, report_type, output_format, template_name) ==
    LET data_dict == DataDict(data)
        name == ResolveTemplateName(report_type, output_format, template_name)
    IN IF name.raised THEN name
       ELSE LET template == GetTemplate(name.value)
            IN IF template.raised THEN template
               ELSE LET rendered == Render(template.value, data_dict)
                    IN IF output_format = OutputFormat_PDF
                       THEN html_to_pdf(rendered)
                       ELSE Return(rendered)

\* mutant of ext_to_format: the .markdown entry is missing
ext_to_format_NoMarkdown ==
    (".md" :> OutputFormat_MARKDOWN) @@ (".html" :> OutputFormat_HTML) @@
    (".pdf" :> OutputFormat_PDF) @@ (".markdown" :> OutputFormat_HTML)

\* generate_to_file: ext_to_format
ext_to_format ==
    (".md" :> OutputFormat_MARKDOWN) @@ (".markdown" :> OutputFormat_MARKDOWN) @@
    (".html" :> OutputFormat_HTML) @@ (".pdf" :> OutputFormat_PDF)

\* mutant of InferFormat: an unknown extension defaults to HTML
InferFormat_DefaultHtml(output_path) ==
    LET suffix == Lower(Suffix(output_path))
    IN IF suffix \in DOMAIN ext_to_format THEN ext_to_format[suffix]
       ELSE OutputFormat_HTML

\* generate_to_file: ext_to_format.get(output_path.suffix.lower(), OutputFormat.MARKDOWN)
InferFormat(output_path) ==
    LET suffix == Lower(Suffix(output_path))
    IN IF suffix \in DOMAIN ext_to_format THEN ext_to_format[suffix]
       ELSE OutputFormat_MARKDOWN

\* generate_to_file: the format generate is called with
ChosenFormat(output_path, output_format) ==
    IF output_format = None THEN InferFormat(output_path) ELSE output_format

NoFile == [nofile |-> TRUE]

IsBytes(content) == "pdf_bytes" \in DOMAIN content

\* generate_to_file: open(output_path, mode) and f.write(content); a text-mode
\* file rejects bytes and a binary-mode file rejects str after the file was opened
WriteFile(fs, output_path, mode, content) ==
    IF (mode = "wb") = IsBytes(content)
    THEN [fs EXCEPT ![output_path] = [mode |-> mode, content |-> content]]
    ELSE [fs EXCEPT ![output_path] = [mode |-> mode, content |-> None]]

\* generate_to_file: mode = "wb" if output_format == OutputFormat.PDF else "w"
FileMode(output_format) == IF output_format = OutputFormat_PDF THEN "wb" ELSE "w"

\* ReportGenerator.generate_to_file from `content = self.generate(...)` on, fmt the
\* format chosen before it: the outcome of the call
GenerateToFile(data, report_type, output_path, fmt, template_name) ==
    LET content == Generate(data, report_type, fmt, template_name)
    IN IF content.raised THEN content
       ELSE IF (FileMode(fmt) = "wb") = IsBytes(content.value) THEN Return(output_path)
       ELSE Raise("TypeError")

\* generate_to_file that opens the output file before it calls generate: the file
\* is there, and empty, when generate raised
GenerateToFileFiles_OpenFirst(fs, data, report_type, output_path, fmt, template_name) ==
    LET content == Generate(data, report_type, fmt, template_name)
    IN IF content.raised
       THEN [fs EXCEPT ![output_path] = [mode |-> FileMode(fmt), content |-> None]]
       ELSE WriteFile(fs, output_path, FileMode(fmt), content.value)

\* ReportGenerator.generate_to_file from `content = self.generate(...)` on: the file
\* system it leaves, untouched when generate raised
GenerateToFileFiles(fs, data, report_type, output_path, fmt, template_name) ==
    LET content == Generate(data, report_type, fmt, template_name)
    IN IF content.raised THEN fs
       ELSE WriteFile(fs, output_path, FileMode(fmt), content.value)

RECURSIVE ListFormats(_, _, _)
\* list_templates: the inner loop over OutputFormat from position i, acc the names so far
ListFormats(report_type, i, acc) ==
    IF i > Len(OutputFormat) THEN Return(acc)
    ELSE LET template_name == GetTemplateName(report_type, OutputFormat[i])
         IN IF template_name.raised THEN template_name
            ELSE ListFormats(report_type, i + 1,
                     IF template_name.value \in templates
                     THEN Append(acc, template_name.value) ELSE acc)

RECURSIVE ListTypes(_, _)
\* list_templates: the outer loop over ReportType from position i, acc the mapping so far
ListTypes(i, acc) ==
    IF i > Len(ReportType) THEN Return(acc)
    ELSE LET names == ListFormats(ReportType[i], 1, <<>>)
         IN IF names.raised THEN names
            ELSE ListTypes(i + 1, acc @@ (ReportType[i].value :> names.value))

\* ReportGenerator.list_templates
ListTemplates == ListTypes(1, <<>>)

-----------------------------------------------------------------------------
(* Python dicts, lists and str operations the JIRA client uses.  A dict is a *)
(* function from its keys; a dict or list held as a value is tagged.        *)

Dict(d) == [dict |-> d]

List(l) == [list |-> l]

\* a JSON number
Number(n) == [int |-> n]

IsNone(v) == "none" \in DOMAIN v

IsStr(v) == "str" \in DOMAIN v

IsDict(v) == "dict" \in DOMAIN v

IsList(v) == "list" \in DOMAIN v

\* {}
EmptyDict == <<>>

\* d.get(key, default)
Get(d, key, default) == IF key \in DOMAIN d THEN d[key] ELSE default

\* d[key] = value
Put(d, key, value) == (key :> value) @@ d

\* `if v:`
Truthy(v) ==
    CASE IsNone(v) -> FALSE
      [] IsStr(v) -> v.str # ""
      [] IsDict(v) -> DOMAIN v.dict # {}
      [] IsList(v) -> Len(v.list) > 0
      [] OTHER -> v.int # 0

RECURSIVE Find(_, _, _)
\* the first position >= i of character c in s (1-based), 0 when there is none
Find(s, c, i) ==
    IF i > Len(s) THEN 0
    ELSE IF SubSeq(s, i, i) = c THEN i
    ELSE Find(s, c, i + 1)

\* s.split(c)[0]
SplitFirst(s, c) ==
    LET i == Find(s, c, 1)
    IN IF i = 0 THEN s ELSE SubSeq(s, 1, i - 1)

RECURSIVE Join(_, _)
\* sep.join(parts)
Join(sep, parts) ==
    IF Len(parts) = 0 THEN ""
    ELSE IF Len(parts) = 1 THEN parts[1]
    ELSE parts[1] \o sep \o Join(sep, Tail(parts))

-----------------------------------------------------------------------------
(* models.py: Status and Priority values *)

Status_NOT_STARTED == Str("Not Started")

Status_IN_PROGRESS == Str("In Progress")

Status_COMPLETED == Str("Completed")

Status_BLOCKED == Str("Blocked")

Status_ON_HOLD == Str("On Hold")

Priority_LOW == Str("Low")

Priority_MEDIUM == Str("Medium")

Priority_HIGH == Str("High")

Priority_CRITICAL == Str("Critical")

-----------------------------------------------------------------------------
(* jira_client.py *)

\* _map_status without the 'in review' and 'paused' entries
MapStatus_FewerNames(jira_status) ==
    IF ~IsStr(jira_status) THEN Raise("AttributeError")
    ELSE LET status_lower == Lower(jira_status.str)
         IN IF status_lower \in {"done", "closed", "resolved", "completed"}
            THEN Return(Status_COMPLETED)
            ELSE IF status_lower \in {"in progress", "in development"}
            THEN Return(Status_IN_PROGRESS)
            ELSE IF status_lower \in {"blocked", "impediment"}
            THEN Return(Status_BLOCKED)
            ELSE IF status_lower \in {"on hold"}
            THEN Return(Status_ON_HOLD)
            ELSE Return(Status_NOT_STARTED)

\* JiraClient._map_status; jira_status.lower() raises AttributeError on a non-str
MapStatus(jira_status) ==
    IF ~IsStr(jira_status) THEN Raise("AttributeError")
    ELSE LET status_lower == Lower(jira_status.str)
         IN IF status_lower \in {"done", "closed", "resolved", "completed"}
            THEN Return(Status_COMPLETED)
            ELSE IF status_lower \in {"in progress", "in development", "in review"}
            THEN Return(Status_IN_PROGRESS)
            ELSE IF status_lower \in {"blocked", "impediment"}
            THEN Return(Status_BLOCKED)
            ELSE IF status_lower \in {"on hold", "paused"}
            THEN Return(Status_ON_HOLD)
            ELSE Return(Status_NOT_STARTED)

\* _map_priority that compares the name as given, without lower()
MapPriority_CaseSensitive(jira_priority) ==
    IF ~IsStr(jira_priority) THEN Raise("AttributeError")
    ELSE LET priority_lower == jira_priority.str
         IN IF priority_lower \in {"highest", "critical", "blocker"}
            THEN Return(Priority_CRITICAL)
            ELSE IF priority_lower \in {"high"}
            THEN Return(Priority_HIGH)
            ELSE IF priority_lower \in {"medium", "normal"}
            THEN Return(Priority_MEDIUM)
            ELSE Return(Priority_LOW)

\* JiraClient._map_priority; jira_priority.lower() raises AttributeError on a non-str
MapPriority(jira_priority) ==
    IF ~IsStr(jira_priority) THEN Raise("AttributeError")
    ELSE LET priority_lower == Lower(jira_priority.str)
         IN IF priority_lower \in {"highest", "critical", "blocker"}
            THEN Return(Priority_CRITICAL)
            ELSE IF priority_lower \in {"high"}
            THEN Return(Priority_HIGH)
            ELSE IF priority_lower \in {"medium", "normal"}
            THEN Return(Priority_MEDIUM)
            ELSE Return(Priority_LOW)

RECURSIVE ChildTexts(_)
\* _extract_description: the texts of the 'text' children of one paragraph
ChildTexts(children) ==
    IF Len(children) = 0 THEN <<>>
    ELSE (IF Get(children[1], "type", "") = "text"
          THEN <<Get(children[1], "text", "")>> ELSE <<>>)
         \o ChildTexts(Tail(children))

RECURSIVE TextParts(_)
\* _extract_description: text_parts over the nodes of an ADF document
TextParts(content) ==
    IF Len(content) = 0 THEN <<>>
    ELSE (IF Get(content[1], "type", "") = "paragraph"
          THEN ChildTexts(Get(content[1], "content", <<>>)) ELSE <<>>)
         \o TextParts(Tail(content))

\* JiraClient._extract_description
ExtractDescription(description) ==
    IF IsNone(description) THEN None
    ELSE IF IsStr(description) THEN description
    ELSE IF IsDict(description)
    THEN LET text_parts == TextParts(Get(description.dict, "content", <<>>))
         IN IF Len(text_parts) > 0 THEN Str(Join(" ", text_parts)) ELSE None
    ELSE Str("str(description)")

\* JiraClient._extract_date
ExtractDate(value) ==
    IF IsNone(value) THEN None
    ELSE IF IsStr(value)
    THEN IF Find(value.str, "T", 1) # 0 THEN Str(SplitFirst(value.str, "T")) ELSE value
    ELSE None

\* issue_to_task_data: fields.get(field, {}).get('name', ''); None has no .get
NameOf(fields, field) ==
    LET v == Get(fields, field, Dict(EmptyDict))
    IN IF ~IsDict(v) THEN Raise("AttributeError")
       ELSE Return(Get(v.dict, "name", Str("")))

\* issue_to_task_data: the assignee entry
WithAssignee(task_data, fields) ==
    LET assignee == Get(fields, "assignee", None)
    IN IF Truthy(assignee)
       THEN Put(task_data, "assignee",
                Get(assignee.dict, "displayName", Get(assignee.dict, "name", Str(""))))
       ELSE task_data

\* issue_to_task_data: the due_date entry
WithDueDate(task_data, fields) ==
    LET due_date == Get(fields, "duedate", None)
    IN IF Truthy(due_date) THEN Put(task_data, "due_date", due_date) ELSE task_data

\* issue_to_task_data: the custom date fields, set whenever the issue has the key
WithCustomDates(task_data, fields) ==
    LET a == IF "customfield_10015" \in DOMAIN fields
             THEN Put(task_data, "target_start_date",
                      ExtractDate(Get(fields, "customfield_10015", None)))
             ELSE task_data
    IN IF "customfield_10016" \in DOMAIN fields
       THEN Put(a, "target_end_date", ExtractDate(Get(fields, "customfield_10016", None)))
       ELSE a

\* issue_to_task_data: created and due date stand in when the key was not set above
WithFallbackDates(task_data, fields) ==
    LET created == Get(fields, "created", None)
        due_date == Get(fields, "duedate", None)
        a == IF "target_start_date" \notin DOMAIN task_data /\ Truthy(created)
             THEN Put(task_data, "target_start_date", Str(SplitFirst(created.str, "T")))
             ELSE task_data
    IN IF "target_end_date" \notin DOMAIN a /\ Truthy(due_date)
       THEN Put(a, "target_end_date", due_date)
       ELSE a

\* issue_to_task_data: the tags entry
WithTags(task_data, fields) ==
    LET labels == Get(fields, "labels", List(<<>>))
    IN IF Truthy(labels) THEN Put(task_data, "tags", labels) ELSE task_data

\* JiraClient.issue_to_task_data
IssueToTaskData(issue) ==
    LET fields == Get(issue, "fields", EmptyDict)
        basic == [title |-> Get(fields, "summary", Str("Untitled")),
                  jira_id |-> Get(issue, "key", Str("")),
                  description |-> ExtractDescription(Get(fields, "description", None))]
        status_name == NameOf(fields, "status")
        status == IF status_name.raised THEN status_name ELSE MapStatus(status_name.value)
        priority_name == NameOf(fields, "priority")
        priority == IF priority_name.raised THEN priority_name
                    ELSE MapPriority(priority_name.value)
    IN IF status.raised THEN status
       ELSE IF priority.raised THEN priority
       ELSE Return(WithTags(WithFallbackDates(WithCustomDates(WithDueDate(WithAssignee(
                Put(Put(basic, "status", status.value), "priority", priority.value),
                fields), fields), fields), fields), fields))

\* JiraClient.get_issue: one GET; an HTTP error status or a failed connection
\* becomes an Exception, otherwise the body is returned
GetIssue(server, issue_key) ==
    LET response == IF issue_key \in DOMAIN server THEN server[issue_key]
                    ELSE [status |-> 404]
    IN IF "json" \in DOMAIN response THEN Return(response.json)
       ELSE Raise("Exception")

\* mutant of Merge: a fetched value replaces the local one only where the local
\* field is empty or missing
Merge_FillOnly(task, jira_data) ==
    [key \in DOMAIN task \cup
             {k \in DOMAIN jira_data : ~IsNone(jira_data[k]) /\ jira_data[k] # Str("")} |->
        IF /\ key \in DOMAIN jira_data
           /\ ~IsNone(jira_data[key]) /\ jira_data[key] # Str("")
           /\ (key \notin DOMAIN task \/ ~Truthy(task[key]))
        THEN jira_data[key] ELSE task[key]]

\* sync_tasks: for key, value in jira_data.items():
\*                 if value is not None and value != '': task[key] = value
Merge(task, jira_data) ==
    [key \in DOMAIN task \cup
             {k \in DOMAIN jira_data : ~IsNone(jira_data[k]) /\ jira_data[k] # Str("")} |->
        IF key \in DOMAIN jira_data /\ ~IsNone(jira_data[key]) /\ jira_data[key] # Str("")
        THEN jira_data[key] ELSE task[key]]

\* the loop body with `if jira_id is not None:` for `if jira_id:`
SyncOne_NotNone(server, task) ==
    LET jira_id == Get(task, "jira_id", None)
    IN IF IsNone(jira_id)
       THEN [task |-> task, requests |-> <<>>, printed |-> <<>>]
       ELSE LET issue == GetIssue(server, jira_id.str)
                jira_data == IF issue.raised THEN issue ELSE IssueToTaskData(issue.value)
            IN IF jira_data.raised
               THEN [task |-> task, requests |-> <<jira_id.str>>,
                     printed |-> <<[failed |-> jira_id.str]>>]
               ELSE [task |-> Merge(task, jira_data.value), requests |-> <<jira_id.str>>,
                     printed |-> <<[synced |-> jira_id.str]>>]

\* sync_tasks: the body of the loop for one task: the task as appended to
\* updated_tasks, the requests sent and the line printed
SyncOne(server, task) ==
    LET jira_id == Get(task, "jira_id", None)
    IN IF ~Truthy(jira_id)
       THEN [task |-> task, requests |-> <<>>, printed |-> <<>>]
       ELSE LET issue == GetIssue(server, jira_id.str)
                jira_data == IF issue.raised THEN issue ELSE IssueToTaskData(issue.value)
            IN IF jira_data.raised
               THEN [task |-> task, requests |-> <<jira_id.str>>,
                     printed |-> <<[failed |-> jira_id.str]>>]
               ELSE [task |-> Merge(task, jira_data.value), requests |-> <<jira_id.str>>,
                     printed |-> <<[synced |-> jira_id.str]>>]

RECURSIVE SyncFrom_StopAtFailure(_, _, _, _)
\* sync_tasks with the try around the loop: the first failure ends the syncing and
\* the tasks after it are appended as they are
SyncFrom_StopAtFailure(server, tasks, i, acc) ==
    IF i > Len(tasks) THEN acc
    ELSE LET one == SyncOne(server, tasks[i])
             failed == one.printed # <<>> /\ "failed" \in DOMAIN one.printed[1]
         IN IF failed
            THEN [updated_tasks |-> acc.updated_tasks \o SubSeq(tasks, i, Len(tasks)),
                  requests |-> acc.requests \o one.requests,
                  printed |-> acc.printed \o one.printed]
            ELSE SyncFrom_StopAtFailure(server, tasks, i + 1,
                     [updated_tasks |-> Append(acc.updated_tasks, one.task),
                      requests |-> acc.requests \o one.requests,
                      printed |-> acc.printed \o one.printed])

RECURSIVE SyncFrom(_, _, _, _)
\* sync_tasks: the loop over task_list (tasks) from position i
SyncFrom(server, tasks, i, acc) ==
    IF i > Len(tasks) THEN acc
    ELSE LET one == SyncOne(server, tasks[i])
         IN SyncFrom(server, tasks, i + 1,
                     [updated_tasks |-> Append(acc.updated_tasks, one.task),
                      requests |-> acc.requests \o one.requests,
                      printed |-> acc.printed \o one.printed])

\* JiraClient.sync_tasks
SyncTasks(server, tasks) ==
    SyncFrom(server, tasks, 1, [updated_tasks |-> <<>>, requests |-> <<>>, printed |-> <<>>])

-----------------------------------------------------------------------------
(* The generator's inputs and its state machine *)

\* the templates the package ships: one Markdown and one HTML template per report kind
BuiltinTemplates ==
    {rt.value \o "." \o ext \o ".j2" : rt \in Range(ReportType), ext \in {"md", "html"}}

\* templates directories: the built-in one, the built-in one with a custom template
\* added, a custom directory with the Markdown templates only, an empty custom one
TemplateDirs ==
    { BuiltinTemplates,
      BuiltinTemplates \cup {"custom.md.j2"},
      {rt.value \o ".md.j2" : rt \in Range(ReportType)},
      {} }

\* a validated record (a ReportData model) and a raw mapping
ReportDatas == {[model |-> "record"], [dict |-> "mapping"]}

\* output paths given to generate_to_file
OutputPaths ==
    {"report.md", "report.MD", "report.markdown", "report.html", "report.pdf",
     "report.docx", "report.doc", "report.txt", "report"}

OptionalFormats == Range(OutputFormat) \cup {None}

OptionalTemplateNames == {None, Str("custom.md.j2"), Str("missing.j2")}

\* generate: the local template_name when env.get_template is reached
UsedTemplate(report_type, output_format, template_name) ==
    LET name == ResolveTemplateName(report_type, output_format, template_name)
    IN IF name.raised THEN None ELSE Str(name.value)

\* a report written to the directory before this run
EarlierFile == [mode |-> "w", content |-> [text |-> "earlier report"]]

\* the output directory before the run: empty, holding one file, or holding a
\* file under every name
EarlierFiles ==
    {[p \in OutputPaths |-> IF p \in existing THEN EarlierFile ELSE NoFile] :
        existing \in {{}, OutputPaths} \cup {{p} : p \in OutputPaths}}

\* the generator in a directory that may hold earlier reports
GenInitExisting ==
    /\ templates \in TemplateDirs
    /\ weasyprint_available \in BOOLEAN
    /\ files \in EarlierFiles
    /\ ncalls = 0
    /\ report_data \in ReportDatas
    /\ call = [op |-> "none"]
    /\ used_format = None
    /\ used_template = None
    /\ result = None

GenInit ==
    /\ templates \in TemplateDirs
    /\ weasyprint_available \in BOOLEAN
    /\ files = [p \in OutputPaths |-> NoFile]
    /\ ncalls = 0
    /\ report_data \in ReportDatas
    /\ call = [op |-> "none"]
    /\ used_format = None
    /\ used_template = None
    /\ result = None

\* a call of ReportGenerator.generate
GenerateCall ==
    \E report_type \in Range(ReportType), output_format \in Range(OutputFormat),
       template_name \in OptionalTemplateNames :
        /\ call' = [op |-> "generate", report_data |-> report_data,
                    report_type |-> report_type, output_format |-> output_format,
                    template_name |-> template_name]
        /\ used_format' = None
        /\ used_template' = UsedTemplate(report_type, output_format, template_name)
        /\ result' = Generate(report_data, report_type, output_format, template_name)
        /\ UNCHANGED <<templates, weasyprint_available, files, ncalls, report_data,
                       jiraVars, confVars, sessVars, modelVars, docxVars, fnVars>>

\* a call of ReportGenerator.generate_to_file
GenerateToFileCall ==
    \E report_type \in Range(ReportType), output_path \in OutputPaths,
       output_format \in OptionalFormats, template_name \in OptionalTemplateNames :
        /\ ncalls < MaxCalls
        /\ ncalls' = ncalls + 1
        /\ call' = [op |-> "generate_to_file", report_data |-> report_data,
                    report_type |-> report_type, output_path |-> output_path,
                    output_format |-> output_format, template_name |-> template_name]
        /\ used_format' = ChosenFormat(output_path, output_format)
        /\ used_template' = UsedTemplate(report_type, used_format', template_name)
        /\ result' = GenerateToFile(report_data, report_type, output_path,
                                    used_format', template_name)
        /\ files' = GenerateToFileFiles(files, report_data, report_type, output_path,
                                        used_format', template_name)
        /\ UNCHANGED <<templates, weasyprint_available, report_data, jiraVars, confVars,
                       sessVars, modelVars, docxVars, fnVars>>

\* a call of ReportGenerator.list_templates
ListTemplatesCall ==
    /\ call' = [op |-> "list_templates"]
    /\ used_format' = None
    /\ used_template' = None
    /\ result' = ListTemplates
    /\ UNCHANGED <<templates, weasyprint_available, files, ncalls, report_data, jiraVars,
                   confVars, sessVars, modelVars, docxVars, fnVars>>

\* the state of the generator's variables in the specifications of the clients
GenIdle ==
    /\ templates = BuiltinTemplates
    /\ weasyprint_available = TRUE
    /\ files = [p \in OutputPaths |-> NoFile]
    /\ ncalls = 0
    /\ report_data = [model |-> "record"]
    /\ call = [op |-> "none"]
    /\ used_format = None
    /\ used_template = None
    /\ result = None

-----------------------------------------------------------------------------
(* The JIRA sync's inputs and its state machine *)

\* marks a key the issue does not have
Absent == [absent |-> TRUE]

\* what the tracker may hold under each key of an issue: 'key' and the keys of 'fields'
IssueChoices ==
    [key |-> {Absent, Str("P-1"), Str("P-9")},
     summary |-> {Absent, None, Str(""), Str("Fetched title")},
     description |->
        {Absent, None, Str(""), Str("Fetched text"),
         Dict([content |-> <<[type |-> "paragraph",
                              content |-> <<[type |-> "text", text |-> "Fetched"],
                                            [type |-> "text", text |-> "text"]>>]>>]),
         Dict([content |-> <<[type |-> "heading"]>>])},
     status |->
        {Absent, None, Dict(EmptyDict), Dict([name |-> None]), Dict([name |-> Str("")]),
         Dict([name |-> Str("Done")]), Dict([name |-> Str("IN REVIEW")]),
         Dict([name |-> Str("Blocked")]), Dict([name |-> Str("On Hold")]),
         Dict([name |-> Str("Open")])},
     priority |->
        {Absent, None, Dict(EmptyDict), Dict([name |-> Str("")]),
         Dict([name |-> Str("Blocker")]), Dict([name |-> Str("High")]),
         Dict([name |-> Str("NORMAL")]), Dict([name |-> Str("Minor")])},
     assignee |->
        {Absent, None, Dict(EmptyDict), Dict([displayName |-> Str("Ann")]),
         Dict([name |-> Str("ann")]), Dict([displayName |-> Str(""), name |-> Str("ann")])},
     duedate |-> {Absent, None, Str(""), Str("2024-03-01")},
     customfield_10015 |->
        {Absent, None, Str(""), Str("2024-01-05"), Str("2024-01-05T08:00"), Number(7)},
     customfield_10016 |->
        {Absent, None, Str(""), Str("2024-02-01"), Str("2024-02-01T18:00"), Number(7)},
     created |-> {Absent, None, Str("2024-01-01T09:30")},
     labels |-> {Absent, None, List(<<>>), List(<<Str("backend")>>)}]

IssueKeys == DOMAIN IssueChoices

\* an issue with every key set, and one with none
FullChoice ==
    [key |-> Str("P-1"), summary |-> Str("Fetched title"), description |-> Str("Fetched text"),
     status |-> Dict([name |-> Str("Done")]), priority |-> Dict([name |-> Str("High")]),
     assignee |-> Dict([displayName |-> Str("Ann")]), duedate |-> Str("2024-03-01"),
     customfield_10015 |-> Str("2024-01-05T08:00"), customfield_10016 |-> Str("2024-02-01"),
     created |-> Str("2024-01-01T09:30"), labels |-> List(<<Str("backend")>>)]

BareChoice == [k \in IssueKeys |-> Absent]

\* the issue (response.json()) a choice of values stands for
MkIssue(choice) ==
    LET fields == [k \in {k \in IssueKeys \ {"key"} : choice[k] # Absent} |-> choice[k]]
    IN IF choice["key"] = Absent THEN [fields |-> fields]
       ELSE [key |-> choice["key"], fields |-> fields]

\* the issues the model draws from: the full issue with up to two keys changed,
\* and the bare issue with up to one key set
Issues ==
    UNION {UNION {{MkIssue([FullChoice EXCEPT ![k1] = v1, ![k2] = v2]) :
                       v1 \in IssueChoices[k1], v2 \in IssueChoices[k2]} : k2 \in IssueKeys}
           : k1 \in IssueKeys}
    \cup UNION {{MkIssue([BareChoice EXCEPT ![k] = v]) : v \in IssueChoices[k]} : k \in IssueKeys}
    \cup {[key |-> Str("P-1")]}

\* what the tracker answers for issue P-1: an issue, an HTTP error or no connection
Responses ==
    {[status |-> 200, json |-> issue] : issue \in Issues}
    \cup {[status |-> 403], [status |-> 404], [status |-> 500], [connection_error |-> TRUE]}

\* the tracker: it knows issue P-1 only (any other key is answered 404)
JiraServers == {("P-1" :> r) : r \in Responses}

\* local tasks: with every field set, with few and empty fields, for an issue the
\* tracker does not have, and without a jira_id
FullTask ==
    [title |-> Str("Local title"), jira_id |-> Str("P-1"), description |-> Str("Local text"),
     status |-> Status_IN_PROGRESS, priority |-> Priority_CRITICAL, assignee |-> Str("Bob"),
     due_date |-> Str("2023-06-01"), target_start_date |-> Str("2023-05-01"),
     target_end_date |-> Str("2023-07-01"), tags |-> List(<<Str("local")>>)]

SparseTask ==
    [title |-> Str(""), jira_id |-> Str("P-1"), description |-> None,
     status |-> Status_BLOCKED, assignee |-> Str("")]

UnknownTask == [FullTask EXCEPT !.jira_id = Str("P-2")]

NoJiraTask == [title |-> Str("Local only"), status |-> Status_COMPLETED]

EmptyJiraTask == [title |-> Str("Local only"), jira_id |-> Str(""), status |-> Status_ON_HOLD]

Tasks == {FullTask, SparseTask, UnknownTask, NoJiraTask, EmptyJiraTask}

\* the task lists of at most MaxTasks tasks
TaskLists == UNION {[1..n -> Tasks] : n \in 0..MaxTasks}

JiraInit ==
    /\ jira_server \in JiraServers
    /\ task_list \in TaskLists
    /\ sync = None

\* the state of the JIRA variables in the specifications that do not sync
JiraIdle ==
    /\ jira_server = <<>>
    /\ task_list = <<>>
    /\ sync = None

\* a call of JiraClient.sync_tasks(task_list); sync.updated_tasks is what it
\* returns, task_list keeps the tasks as they were when passed
SyncTasksCall ==
    /\ sync = None
    /\ sync' = SyncTasks(jira_server, task_list)
    /\ UNCHANGED <<jira_server, task_list>>

-----------------------------------------------------------------------------
(* confluence_client.py.  One call of create_or_update_page sends two         *)
(* requests and the wiki may change between them, so each request is a step. *)
(* The wiki answers the way the client's error handling expects: a lookup    *)
(* returns the page of that space and title, an update is accepted only when *)
(* it carries the page's current version number plus one (409 otherwise), a  *)
(* create is refused (400) when the space already has a page of that title.  *)

\* the statuses of a request that fails whatever the wiki holds: 0 stands for
\* a request without a response (connection error, timeout)
Faults == {0, 403, 500}

\* get_page_by_title that takes a failed lookup for "no such page"
GetPageByTitle_Swallow(status, results) ==
    IF status # 200 THEN Return(None)
    ELSE IF Len(results) > 0 THEN Return(results[1])
    ELSE Return(None)

\* get_page_by_title: what the call returns or raises for a response
GetPageByTitle(status, results) ==
    IF status # 200 THEN Raise("Exception: Failed to get page")
    ELSE IF Len(results) > 0 THEN Return(results[1])
    ELSE Return(None)

\* create_page: the body of the POST; "ancestors" only for a truthy parent_id
CreatePageData(space_key, title, content, parent_id) ==
    LET page_data == [type |-> "page", title |-> title, space |-> space_key,
                      body |-> content]
    IN IF Truthy(parent_id) THEN Put(page_data, "ancestors", <<parent_id.str>>)
       ELSE page_data

\* create_page without raise_for_status
CreatePageResult_Unchecked(status, page) == Return(page)

\* create_page: what the call returns or raises for a response
CreatePageResult(status, page) ==
    IF status = 200 THEN Return(page)
    ELSE IF status = 400 THEN Raise("Exception: Failed to create page: Invalid data")
    ELSE IF status = 403 THEN Raise("Exception: Access denied")
    ELSE IF status = 0 THEN Raise("Exception: Failed to connect to Confluence")
    ELSE Raise("Exception: Failed to create page")

\* update_page with the found version number sent as it is
UpdatePageData_SameVersion(title, content, version) ==
    [version |-> version, title |-> title, type |-> "page", body |-> content]

\* update_page: the body of the PUT
UpdatePageData(title, content, version) ==
    [version |-> version + 1, title |-> title, type |-> "page", body |-> content]

\* update_page without raise_for_status
UpdatePageResult_Unchecked(status, page) == Return(page)

\* update_page: what the call returns or raises for a response
UpdatePageResult(status, page) ==
    IF status = 200 THEN Return(page)
    ELSE IF status = 409 THEN Raise("Exception: Version conflict")
    ELSE IF status = 0 THEN Raise("Exception: Failed to connect to Confluence")
    ELSE Raise("Exception: Failed to update page")

\* create_or_update_page after the lookup: `if existing_page:`
NextRequest(existing_page) == IF IsNone(existing_page) THEN "create" ELSE "update"

-----------------------------------------------------------------------------
(* The wiki and the clients publishing to it *)

\* the processes that call create_or_update_page, each once
Clients == {"c1", "c2"}

Spaces == {"DOC"}

Titles == {"Report", "Notes"}

\* create_or_update_page: parent_id
ParentIds == {None, Str(""), Str("77")}

\* the page a wiki holds before any client wrote to it
OldPage(title) ==
    [id |-> IF title = "Report" THEN 1 ELSE 2, version |-> 1, title |-> title,
     body |-> "old", ancestors |-> <<>>]

\* GET /rest/api/content?spaceKey=..&title=..: the "results" of the response
SearchResults(space_key, title) ==
    IF wiki[<<space_key, title>>] = None THEN <<>> ELSE <<wiki[<<space_key, title>>]>>

\* where the wiki keeps the page with this id; {} when there is none
KeysOfId(page_id) == {k \in DOMAIN wiki : wiki[k] # None /\ wiki[k].id = page_id}

\* PUT /rest/api/content/{id}: the status of the response
UpdateStatus(page_id, page_data) ==
    IF KeysOfId(page_id) = {} THEN 404
    ELSE IF \E k \in KeysOfId(page_id) : page_data.version # wiki[k].version + 1 THEN 409
    ELSE 200

\* POST /rest/api/content: the status of the response
CreateStatus(page_data) ==
    IF wiki[<<page_data.space, page_data.title>>] # None THEN 400 ELSE 200

\* the page stored for an accepted POST
CreatedPage(page_data) ==
    [id |-> next_id, version |-> 1, title |-> page_data.title, body |-> page_data.body,
     ancestors |-> Get(page_data, "ancestors", <<>>)]

IdleClient ==
    [pc |-> "idle", space_key |-> "", title |-> "", content |-> "", parent_id |-> None,
     existing_page |-> None, result |-> None]

ConfIdle ==
    /\ wiki = [k \in Spaces \X Titles |-> None]
    /\ next_id = 10
    /\ client = [c \in Clients |-> IdleClient]
    /\ conf_requests = <<>>

ConfInit ==
    /\ wiki \in [Spaces \X Titles -> {None} \cup {OldPage(t) : t \in Titles}]
    /\ \A k \in DOMAIN wiki : wiki[k] # None => wiki[k].title = k[2]
    /\ next_id = 10
    /\ client = [c \in Clients |-> IdleClient]
    /\ conf_requests = <<>>

\* create_or_update_page(space_key, title, content, parent_id) up to the end of
\* get_page_by_title
Lookup(c) ==
    \E space_key \in Spaces, title \in Titles, parent_id \in ParentIds,
       status \in {200} \cup Faults :
        LET results == IF status = 200 THEN SearchResults(space_key, title) ELSE <<>>
            r == GetPageByTitle(status, results)
        IN /\ client[c].pc = "idle"
           /\ conf_requests' = Append(conf_requests,
                  [client |-> c, method |-> "GET", spaceKey |-> space_key,
                   title |-> title, status |-> status, results |-> results])
           /\ client' = [client EXCEPT ![c] =
                  [pc |-> IF r.raised THEN "done" ELSE NextRequest(r.value),
                   space_key |-> space_key, title |-> title, content |-> "by " \o c,
                   parent_id |-> parent_id,
                   existing_page |-> IF r.raised THEN None ELSE r.value,
                   result |-> IF r.raised THEN r ELSE None]]
           /\ UNCHANGED <<wiki, next_id>>

\* update_page that sends its PUT a second time when the first one failed
Update_Retry(c) ==
    \E fault \in {200} \cup Faults :
        LET page_id == client[c].existing_page.id
            version == client[c].existing_page.version
            page_data == UpdatePageData(client[c].title, client[c].content, version)
            status == IF fault = 200 THEN UpdateStatus(page_id, page_data) ELSE fault
            k == CHOOSE k \in KeysOfId(page_id) : TRUE
            page == [wiki[k] EXCEPT !.version = page_data.version,
                                    !.title = page_data.title, !.body = page_data.body]
            again == /\ status # 200
                     /\ \A i \in DOMAIN conf_requests :
                            ~(conf_requests[i].client = c /\ conf_requests[i].method = "PUT")
        IN /\ client[c].pc = "update"
           /\ conf_requests' = Append(conf_requests,
                  [client |-> c, method |-> "PUT", id |-> page_id, data |-> page_data,
                   status |-> status])
           /\ wiki' = IF status = 200 THEN [wiki EXCEPT ![k] = page] ELSE wiki
           /\ client' = IF again THEN client
                         ELSE [client EXCEPT ![c].pc = "done",
                                             ![c].result = UpdatePageResult(status, page)]
           /\ UNCHANGED next_id

\* create_or_update_page: update_page(page_id, title, content, version)
Update(c) ==
    \E fault \in {200} \cup Faults :
        LET page_id == client[c].existing_page.id
            version == client[c].existing_page.version
            page_data == UpdatePageData(client[c].title, client[c].content, version)
            status == IF fault = 200 THEN UpdateStatus(page_id, page_data) ELSE fault
            k == CHOOSE k \in KeysOfId(page_id) : TRUE
            page == [wiki[k] EXCEPT !.version = page_data.version,
                                    !.title = page_data.title, !.body = page_data.body]
        IN /\ client[c].pc = "update"
           /\ conf_requests' = Append(conf_requests,
                  [client |-> c, method |-> "PUT", id |-> page_id, data |-> page_data,
                   status |-> status])
           /\ wiki' = IF status = 200 THEN [wiki EXCEPT ![k] = page] ELSE wiki
           /\ client' = [client EXCEPT ![c].pc = "done",
                                      ![c].result = UpdatePageResult(status, page)]
           /\ UNCHANGED next_id

\* create_or_update_page: create_page(space_key, title, content, parent_id)
Create(c) ==
    \E fault \in {200} \cup Faults :
        LET page_data == CreatePageData(client[c].space_key, client[c].title,
                                        client[c].content, client[c].parent_id)
            status == IF fault = 200 THEN CreateStatus(page_data) ELSE fault
            page == CreatedPage(page_data)
        IN /\ client[c].pc = "create"
           /\ conf_requests' = Append(conf_requests,
                  [client |-> c, method |-> "POST", data |-> page_data,
                   status |-> status])
           /\ wiki' = IF status = 200
                      THEN [wiki EXCEPT ![<<page_data.space, page_data.title>>] = page]
                      ELSE wiki
           /\ next_id' = IF status = 200 THEN next_id + 1 ELSE next_id
           /\ client' = [client EXCEPT ![c].pc = "done",
                                      ![c].result = CreatePageResult(status, page)]

\* somebody edits a page in the wiki's own editor
OtherWriter ==
    \E k \in DOMAIN wiki :
        /\ wiki[k] # None
        /\ wiki[k].version < MaxVersion
        /\ wiki' = [wiki EXCEPT ![k].version = @ + 1, ![k].body = "theirs"]
        /\ UNCHANGED <<next_id, client, conf_requests>>

-----------------------------------------------------------------------------
(* One generator used for a series of calls *)

\* the arguments of a generate call
GenerateArgs ==
    [report_type : Range(ReportType), output_format : Range(OutputFormat),
     template_name : OptionalTemplateNames]

\* HTML handed to html_to_pdf directly
HtmlContents == {"<h1>Report</h1>", ""}

\* generate: report_data after the call; the method assigns to its locals only
\* (model_dump builds a new dict, render(**data_dict) unpacks into a new one)
ReportDataAfterGenerate(data) == data

SessIdle ==
    /\ watched = None
    /\ first_result = None
    /\ failed_pdf = FALSE
    /\ between = FALSE

SessInit ==
    /\ watched \in GenerateArgs
    /\ first_result = None
    /\ failed_pdf = FALSE
    /\ between = FALSE

\* a call of generate on a generator that was used before
SessionGenerate ==
    \E args \in GenerateArgs :
        /\ call' = [op |-> "generate", report_data |-> report_data,
                    report_type |-> args.report_type,
                    output_format |-> args.output_format,
                    template_name |-> args.template_name]
        /\ used_format' = None
        /\ used_template' =
               UsedTemplate(args.report_type, args.output_format, args.template_name)
        /\ result' = Generate(report_data, args.report_type, args.output_format,
                              args.template_name)
        /\ report_data' = ReportDataAfterGenerate(report_data)
        /\ first_result' = IF args = watched /\ first_result = None THEN result'
                           ELSE first_result
        /\ failed_pdf' = (failed_pdf \/ result' = Raise("ImportError"))
        /\ between' = (between \/ (args # watched /\ first_result # None))
        /\ UNCHANGED <<templates, weasyprint_available, files, ncalls, watched,
                       jiraVars, confVars, modelVars, docxVars, fnVars>>

\* a call of formatters.pdf.html_to_pdf
HtmlToPdfCall ==
    \E html_content \in HtmlContents :
        /\ call' = [op |-> "html_to_pdf", html_content |-> html_content]
        /\ used_format' = None
        /\ used_template' = None
        /\ result' = html_to_pdf(html_content)
        /\ failed_pdf' = (failed_pdf \/ result' = Raise("ImportError"))
        /\ UNCHANGED <<templates, weasyprint_available, files, ncalls, report_data,
                       watched, first_result, between, jiraVars, confVars, modelVars,
                       docxVars, fnVars>>

-----------------------------------------------------------------------------
(* models.py: the records and their validation.  The classes declare no   *)
(* model_config, so pydantic's defaults apply: a keyword that is not a     *)
(* field of the class is ignored, a missing required field or a value that *)
(* fails its field's constraint raises ValidationError.                    *)

\* Milestone.completion_percentage: Field(ge=0, ...)
completion_ge == 0

\* Milestone.completion_percentage: Field(..., le=100, ...)
completion_le == 100

\* Status: the values of the enumeration
StatusValues ==
    {Status_NOT_STARTED, Status_IN_PROGRESS, Status_COMPLETED, Status_BLOCKED,
     Status_ON_HOLD}

\* Priority: the values of the enumeration
PriorityValues == {Priority_LOW, Priority_MEDIUM, Priority_HIGH, Priority_CRITICAL}

\* the fields of ReportData
ReportDataFields ==
    {"title", "project_name", "author", "date", "version", "summary", "custom_fields"}

\* the fields each class declares
ModelFields(cls) ==
    CASE cls = "Milestone" ->
             {"name", "target_date", "status", "completion_percentage", "description"}
      [] cls = "Task" ->
             {"title", "assignee", "status", "priority", "due_date", "description", "tags"}
      [] cls = "FeatureDevReport" ->
             ReportDataFields \cup
             {"feature_name", "repository", "branch", "sprint", "team_members",
              "objectives", "requirements", "technical_approach", "architecture_notes",
              "tasks", "testing_strategy", "deployment_plan", "risks", "dependencies",
              "milestones", "progress_notes"}

\* the fields declared without a default
RequiredFields(cls) ==
    CASE cls = "Milestone" -> {"name", "target_date", "status"}
      [] cls = "Task" -> {"title", "status"}
      [] cls = "FeatureDevReport" ->
             {"title", "project_name", "author", "summary", "feature_name"}

\* date.today(), the default of ReportData.date
Today == Str("2024-06-01")

\* the default of a field declared with one
FieldDefault(cls, field) ==
    CASE field = "completion_percentage" -> Number(0)
      [] field = "priority" -> Priority_MEDIUM
      [] field = "date" -> Today
      [] field = "version" -> Str("1.0")
      [] field = "custom_fields" -> Dict(EmptyDict)
      [] field \in {"tags", "team_members", "objectives", "requirements", "tasks",
                    "risks", "dependencies", "milestones"} -> List(<<>>)
      [] field \in {"technical_approach", "architecture_notes", "testing_strategy",
                    "deployment_plan", "progress_notes"} -> Str("")
      [] OTHER -> None

\* whether value is an int
IsInt(value) == "int" \in DOMAIN value

\* completion_percentage with le=100 read as lt=100
FieldValid_Exclusive(field, value) ==
    CASE field = "completion_percentage" ->
             IsInt(value) /\ value.int >= completion_ge /\ value.int < completion_le
      [] field = "status" -> value \in StatusValues
      [] field = "priority" -> value \in PriorityValues
      [] OTHER -> TRUE

\* whether value passes the validation of the field
FieldValid(field, value) ==
    CASE field = "completion_percentage" ->
             IsInt(value) /\ value.int >= completion_ge /\ value.int <= completion_le
      [] field = "status" -> value \in StatusValues
      [] field = "priority" -> value \in PriorityValues
      [] OTHER -> TRUE

\* cls(**kwargs)
Construct(cls, kwargs) ==
    IF \/ ~(RequiredFields(cls) \subseteq DOMAIN kwargs)
       \/ \E field \in DOMAIN kwargs \cap ModelFields(cls) : ~FieldValid(field, kwargs[field])
    THEN Raise("ValidationError")
    ELSE Return([field \in ModelFields(cls) |->
                    IF field \in DOMAIN kwargs THEN kwargs[field]
                    ELSE FieldDefault(cls, field)])

\* d without key
Without(d, key) == [k \in DOMAIN d \ {key} |-> d[k]]

\* completion percentages tried: the integers around the allowed range, None, a word
Percentages ==
    {Number(n) : n \in (completion_ge - Margin)..(completion_le + Margin)}
        \cup {None, Str("half")}

\* keyword arguments tried for each class: a valid minimal mapping, with a
\* required field removed, with optional fields, and with keywords the class
\* does not declare
MilestoneKwargs ==
    LET base == [name |-> Str("Release 1.0"), target_date |-> Str("2024-12-31"),
                 status |-> Status_IN_PROGRESS]
        withP == {base} \cup {Put(base, "completion_percentage", p) : p \in Percentages}
    IN withP \cup {Without(k, "name") : k \in withP}
             \cup {Put(k, "owner", Str("ann")) : k \in withP}

TaskKwargs ==
    LET base == [title |-> Str("Test task"), status |-> Status_NOT_STARTED]
        opt == {base, Put(base, "assignee", Str("ann")), Put(base, "status", Str("Done"))}
    IN opt \cup {Put(k, "jira_id", Str("AUTH-101")) : k \in opt} \cup {Without(base, "status")}

FeatureDevKwargs ==
    LET base == [title |-> Str("Report"), project_name |-> Str("Project"),
                 author |-> Str("ann"), summary |-> Str("Summary"),
                 feature_name |-> Str("Login")]
        opt == {base, Put(base, "objectives", List(<<Str("Ship")>>))}
    IN opt \cup {Put(k, "action_points", List(<<Str("Review")>>)) : k \in opt}
           \cup {Without(base, "summary")}

ModelClasses == {"Milestone", "Task", "FeatureDevReport"}

KwargsOf(cls) ==
    CASE cls = "Milestone" -> MilestoneKwargs
      [] cls = "Task" -> TaskKwargs
      [] cls = "FeatureDevReport" -> FeatureDevKwargs

ModelIdle ==
    /\ model_call = None
    /\ model_result = None

\* a record is constructed from a mapping
ConstructCall ==
    \E cls \in ModelClasses :
        \E kwargs \in KwargsOf(cls) :
            /\ model_call' = [cls |-> cls, kwargs |-> kwargs]
            /\ model_result' = Construct(cls, kwargs)

-----------------------------------------------------------------------------
(* formatters/docx.py: the document is the sequence of blocks added to it *)

\* a member of a str-mixin enumeration as model_dump(mode="python") leaves it:
\* it is the str value, and str() of it is Class.NAME
EnumMember(class_name, value) == [str |-> value, member |-> class_name]

\* str(value)
PyStr(value) ==
    CASE IsNone(value) -> "None"
      [] "member" \in DOMAIN value -> value.member
      [] IsStr(value) -> value.str
      [] IsInt(value) -> ToString(value.int)
      [] OTHER -> "[...]"

\* the text python-docx stores for add_paragraph(text) and add_run(text):
\* nothing for None or ''
RunText(value) == IF Truthy(value) THEN PyStr(value) ELSE ""

\* doc.add_heading(text, level)
Heading(text, level) == [block |-> "heading", text |-> RunText(text), level |-> level]

\* doc.add_paragraph(text)
Paragraph(text) == [block |-> "paragraph", text |-> RunText(text)]

\* doc.add_paragraph(str(item), style='List Bullet')
Bullet(text) == [block |-> "bullet", text |-> text]

\* doc.add_paragraph(): spacing
Spacing == [block |-> "paragraph", text |-> ""]

\* a table: its rows of cell texts, the header row first when it has one
TableBlock(rows, cols) == [block |-> "table", rows |-> rows, cols |-> cols]

\* [f(x) for x in seq]
Map(f(_), seq) == [i \in 1..Len(seq) |-> f(seq[i])]

\* the concatenation of a sequence of sequences
RECURSIVE Flatten(_)
Flatten(seqs) == IF seqs = <<>> THEN <<>> ELSE Head(seqs) \o Flatten(Tail(seqs))

\* _format_date; dates are kept as their ISO text
FormatDate(date_value) == IF IsStr(date_value) THEN date_value.str ELSE "N/A"

\* _add_table
AddTable(headers, rows) ==
    IF rows = <<>> THEN <<Paragraph(Str("No data available."))>>
    ELSE <<TableBlock(<<headers>> \o Map(LAMBDA row : Map(PyStr, row), rows),
                      Len(headers)),
           Spacing>>

\* _add_list
AddList(items) ==
    IF ~Truthy(items) THEN <<Paragraph(Str("None specified."))>>
    ELSE Map(LAMBDA item : Bullet(PyStr(item)), items.list) \o <<Spacing>>

\* status.get("value", "N/A") if isinstance(status, dict) else str(status)
ValueText(value) ==
    IF IsDict(value) THEN Get(value.dict, "value", Str("N/A")) ELSE Str(PyStr(value))

\* metadata_fields.append(row) in the place of insert(1, row)
Insert1_Append(rows, row) == Append(rows, row)

\* metadata_fields.insert(1, row)
Insert1(rows, row) == <<rows[1], row>> \o SubSeq(rows, 2, Len(rows))

\* _add_metadata_section: metadata_fields
MetadataFields(data) ==
    LET base == << <<"Project", Get(data, "project_name", Str("N/A"))>>,
                   <<"Author", Get(data, "author", Str("N/A"))>>,
                   <<"Date", Str(FormatDate(Get(data, "date", None)))>>,
                   <<"Version", Get(data, "version", Str("1.0"))>> >>
        f1 == IF "feature_name" \in DOMAIN data
              THEN Insert1(base, <<"Feature", data["feature_name"]>>) ELSE base
        f2 == IF "program_name" \in DOMAIN data
              THEN Insert1(f1, <<"Program", data["program_name"]>>) ELSE f1
        f3 == IF "initiative_name" \in DOMAIN data
              THEN Insert1(f2, <<"Initiative", data["initiative_name"]>>) ELSE f2
        Extra(label, key) ==
            IF key \in DOMAIN data /\ Truthy(data[key])
            THEN << <<label, IF key # "status" THEN data[key]
                             ELSE IF IsDict(data[key]) THEN data[key].dict["value"]
                             ELSE Str(PyStr(data[key]))>> >>
            ELSE <<>>
    IN f3 \o Extra("Repository", "repository") \o Extra("Branch", "branch")
          \o Extra("Sprint", "sprint") \o Extra("Status", "status")

\* _add_metadata_section
AddMetadataSection(data) ==
    << TableBlock(Map(LAMBDA f : <<f[1], PyStr(f[2])>>, MetadataFields(data)), 2),
       Spacing >>

\* the Team section of the three builders
TeamBlocks(data) ==
    LET team_members == Get(data, "team_members", List(<<>>))
    IN IF Truthy(team_members)
       THEN AddTable(<<"Name", "Role", "Email">>,
                     Map(LAMBDA member : <<Get(member, "name", Str("N/A")),
                                           Get(member, "role", Str("N/A")),
                                           Get(member, "email", Str("N/A"))>>,
                         team_members.list))
       ELSE <<Paragraph(Str("No team members specified.")), Spacing>>

\* the Milestones section of the three builders
MilestoneBlocks(data) ==
    LET milestones == Get(data, "milestones", List(<<>>))
    IN IF Truthy(milestones)
       THEN AddTable(<<"Milestone", "Target Date", "Status", "Completion">>,
                     Map(LAMBDA milestone :
                             <<Get(milestone, "name", Str("N/A")),
                               Str(FormatDate(Get(milestone, "target_date", None))),
                               ValueText(Get(milestone, "status", Dict(EmptyDict))),
                               Str(PyStr(Get(milestone, "completion_percentage", Number(0)))
                                   \o "%")>>,
                         milestones.list))
       ELSE <<Paragraph(Str("No milestones defined.")), Spacing>>

\* the Risks & Mitigation section of the feature and initiative builders: one
\* sub-heading and one paragraph of runs for each risk
RiskBlocks(data) ==
    LET risks == Get(data, "risks", List(<<>>))
        One(i) ==
            LET risk == risks.list[i]
            IN << Heading(Str(ToString(i) \o ". "
                              \o PyStr(Get(risk, "description", Str("Risk")))), 2),
                  [block |-> "paragraph",
                   text |-> "Impact: "
                            \o ValueText(Get(risk, "impact", Dict(EmptyDict))).str \o "\n"
                            \o "Likelihood: "
                            \o ValueText(Get(risk, "likelihood", Dict(EmptyDict))).str \o "\n"
                            \o "Mitigation: " \o RunText(Get(risk, "mitigation", Str("N/A")))
                            \o (IF Truthy(Get(risk, "owner", None))
                                THEN "\nOwner: " \o RunText(risk["owner"]) ELSE "")],
                  Spacing >>
    IN IF Truthy(risks)
       THEN Flatten([i \in 1..Len(risks.list) |-> One(i)])
       ELSE <<Paragraph(Str("No risks identified.")), Spacing>>

\* a heading followed by one paragraph and the spacing
TextSection(title, text) == <<Heading(Str(title), 1), Paragraph(text), Spacing>>

\* an optional sub-section added whatever the field holds
OptionalSection_Always(data, key, title) ==
    <<Heading(Str(title), 2), Paragraph(Get(data, key, None)), Spacing>>

\* an optional sub-section: `if data.get(key):`
OptionalSection(data, key, title) ==
    IF Truthy(Get(data, key, None))
    THEN <<Heading(Str(title), 2), Paragraph(data[key]), Spacing>>
    ELSE <<>>

\* the Tasks & Progress table of the feature builder
TaskBlocks(data) ==
    LET tasks == Get(data, "tasks", List(<<>>))
    IN IF Truthy(tasks)
       THEN AddTable(<<"Task", "Assignee", "Status", "Priority", "JIRA", "Start Date",
                       "End Date", "Due Date">>,
                     Map(LAMBDA task :
                             <<Get(task, "title", Str("N/A")),
                               Get(task, "assignee", Str("Unassigned")),
                               ValueText(Get(task, "status", Dict(EmptyDict))),
                               ValueText(Get(task, "priority", Dict(EmptyDict))),
                               Get(task, "jira_id", Str("N/A")),
                               Str(FormatDate(Get(task, "target_start_date", None))),
                               Str(FormatDate(Get(task, "target_end_date", None))),
                               Str(FormatDate(Get(task, "due_date", None)))>>,
                         tasks.list))
       ELSE <<Paragraph(Str("No tasks defined.")), Spacing>>

\* _create_feature_dev_report
CreateFeatureDevReport(data) ==
    <<Heading(Get(data, "title", Str("Feature Development Report")), 0)>>
    \o AddMetadataSection(data)
    \o TextSection("Executive Summary", Get(data, "summary", Str("No summary provided.")))
    \o <<Heading(Str("Team"), 1)>> \o TeamBlocks(data)
    \o <<Heading(Str("Objectives"), 1)>> \o AddList(Get(data, "objectives", List(<<>>)))
    \o <<Heading(Str("Requirements"), 1)>> \o AddList(Get(data, "requirements", List(<<>>)))
    \o TextSection("Technical Approach",
                   Get(data, "technical_approach", Str("To be determined.")))
    \o OptionalSection(data, "architecture_notes", "Architecture Notes")
    \o <<Heading(Str("Tasks & Progress"), 1)>> \o TaskBlocks(data)
    \o OptionalSection(data, "progress_notes", "Progress Notes")
    \o <<Heading(Str("Milestones"), 1)>> \o MilestoneBlocks(data)
    \o TextSection("Testing Strategy", Get(data, "testing_strategy", Str("To be defined.")))
    \o TextSection("Deployment Plan", Get(data, "deployment_plan", Str("To be defined.")))
    \o <<Heading(Str("Risks & Mitigation"), 1)>> \o RiskBlocks(data)
    \o <<Heading(Str("Dependencies"), 1)>> \o AddList(Get(data, "dependencies", List(<<>>)))

\* the rows of the KPI table: [[k, str(v)] for k, v in kpis.items()]; a dict
\* that is iterated is kept as the sequence of its (key, value) pairs
KpiBlocks(data) ==
    LET kpis == Get(data, "kpis", Dict(EmptyDict))
    IN IF Truthy(kpis)
       THEN AddTable(<<"Metric", "Value">>,
                     Map(LAMBDA item : <<Str(item[1]), Str(PyStr(item[2]))>>, kpis.dict))
       ELSE <<Paragraph(Str("No KPIs defined.")), Spacing>>

\* the Risks table of the program builder
RiskTableBlocks(data) ==
    LET risks == Get(data, "risks", List(<<>>))
    IN IF Truthy(risks)
       THEN AddTable(<<"Risk", "Impact", "Likelihood", "Mitigation", "Owner">>,
                     Map(LAMBDA risk :
                             <<Get(risk, "description", Str("N/A")),
                               ValueText(Get(risk, "impact", Dict(EmptyDict))),
                               ValueText(Get(risk, "likelihood", Dict(EmptyDict))),
                               Get(risk, "mitigation", Str("N/A")),
                               Get(risk, "owner", Str("N/A"))>>,
                         risks.list))
       ELSE <<Paragraph(Str("No risks identified.")), Spacing>>

\* _create_program_mgmt_report
CreateProgramMgmtReport(data) ==
    <<Heading(Get(data, "title", Str("Program Management Report")), 0)>>
    \o AddMetadataSection(data)
    \o TextSection("Executive Summary",
                   Get(data, "executive_summary",
                       Get(data, "summary", Str("No summary provided."))))
    \o <<Heading(Str("Stakeholders"), 1)>> \o AddList(Get(data, "stakeholders", List(<<>>)))
    \o <<Heading(Str("Team Composition"), 1)>> \o TeamBlocks(data)
    \o <<Heading(Str("Key Performance Indicators (KPIs)"), 1)>> \o KpiBlocks(data)
    \o <<Heading(Str("Milestones & Progress"), 1)>> \o MilestoneBlocks(data)
    \o <<Heading(Str("Key Achievements"), 1)>>
    \o AddList(Get(data, "key_achievements", List(<<>>)))
    \o <<Heading(Str("Challenges"), 1)>> \o AddList(Get(data, "challenges", List(<<>>)))
    \o <<Heading(Str("Risks"), 1)>> \o RiskTableBlocks(data)
    \o TextSection("Budget Summary",
                   Get(data, "budget_summary", Str("No budget information provided.")))
    \o <<Heading(Str("Upcoming Activities"), 1)>>
    \o AddList(Get(data, "upcoming_activities", List(<<>>)))
    \o <<Heading(Str("Decisions Needed"), 1)>>
    \o AddList(Get(data, "decisions_needed", List(<<>>)))

\* the Implementation Phases section of the initiative builder
PhaseBlocks(data) ==
    LET phases == Get(data, "implementation_phases", List(<<>>))
        One(i) ==
            LET phase == phases.list[i]
            IN << Heading(Str("Phase " \o ToString(i) \o ": "
                              \o PyStr(Get(phase, "name", Str("Phase " \o ToString(i))))), 2) >>
               \o (IF Truthy(Get(phase, "description", None))
                   THEN <<Paragraph(phase["description"])>> ELSE <<>>)
               \o (IF Truthy(Get(phase, "duration", None))
                   THEN <<Paragraph(Str("Duration: " \o PyStr(phase["duration"])))>>
                   ELSE <<>>)
               \o (IF Truthy(Get(phase, "deliverables", None))
                   THEN <<Paragraph(Str("Deliverables:"))>> \o AddList(phase["deliverables"])
                   ELSE <<>>)
    IN (IF Truthy(phases)
        THEN Flatten([i \in 1..Len(phases.list) |-> One(i)])
        ELSE <<Paragraph(Str("No implementation phases defined."))>>)
       \o <<Spacing>>

\* _create_engineering_init_report
CreateEngineeringInitReport(data) ==
    <<Heading(Get(data, "title", Str("Engineering Initiative Report")), 0)>>
    \o AddMetadataSection(data)
    \o TextSection("Executive Summary", Get(data, "summary", Str("No summary provided.")))
    \o <<Heading(Str("Sponsors"), 1)>> \o AddList(Get(data, "sponsors", List(<<>>)))
    \o <<Heading(Str("Team"), 1)>> \o TeamBlocks(data)
    \o <<Heading(Str("Objectives"), 1)>> \o AddList(Get(data, "objectives", List(<<>>)))
    \o TextSection("Scope", Get(data, "scope", Str("To be defined.")))
    \o TextSection("Technical Details", Get(data, "technical_details", Str("To be defined.")))
    \o <<Heading(Str("Implementation Phases"), 1)>> \o PhaseBlocks(data)
    \o <<Heading(Str("Success Criteria"), 1)>>
    \o AddList(Get(data, "success_criteria", List(<<>>)))
    \o <<Heading(Str("Milestones"), 1)>> \o MilestoneBlocks(data)
    \o TextSection("Impact Analysis", Get(data, "impact_analysis", Str("To be defined.")))
    \o TextSection("Resources Required",
                   Get(data, "resources_required", Str("To be defined.")))
    \o <<Heading(Str("Risks & Mitigation"), 1)>> \o RiskBlocks(data)
    \o TextSection("Rollout Strategy", Get(data, "rollout_strategy", Str("To be defined.")))

\* the footer text the builder of report_type sets
DocxFooter(data, report_type) ==
    (IF report_type = "feature_dev" THEN "Generated on " ELSE "Report generated on ")
        \o FormatDate(Get(data, "date", Today))

\* create_docx_report: the builder chosen for report_type
DocxBlocks(data, report_type) ==
    CASE report_type = "feature_dev" -> CreateFeatureDevReport(data)
      [] report_type = "program_mgmt" -> CreateProgramMgmtReport(data)
      [] report_type = "engineering_init" -> CreateEngineeringInitReport(data)

\* create_docx_report; the bytes are the saved document: its blocks
CreateDocxReport(data, report_type) ==
    IF ~python_docx_available THEN Raise("ImportError")
    ELSE IF report_type \notin {"feature_dev", "program_mgmt", "engineering_init"}
    THEN Raise("ValueError")
    ELSE Return([docx_bytes |-> [body |-> DocxBlocks(data, report_type),
                                 footer |-> DocxFooter(data, report_type)]])

-----------------------------------------------------------------------------
(* The data handed to create_docx_report: what model_dump(mode="python")   *)
(* gives for a record ("dump": every field of the class is a key, an unset *)
(* one holding its default) and a raw mapping ("mapping": an unset field   *)
(* is no key at all).                                                      *)

Shapes == {"dump", "mapping"}

\* the entry of one field: its value when set, its default when unset in a
\* dump, no entry when unset in a mapping
Entry(shape, key, set, value, default) ==
    IF set THEN key :> value
    ELSE IF shape = "dump" THEN key :> default
    ELSE <<>>

\* the entries of several text fields set or unset together
RECURSIVE Entries(_, _, _, _, _)
Entries(shape, keys, set, value, default) ==
    IF keys = <<>> THEN <<>>
    ELSE Entry(shape, Head(keys), set, value, default)
             @@ Entries(shape, Tail(keys), set, value, default)

\* a status as the shape holds it: the enum member in a dump, its text in a mapping
StatusIn(shape, class_name, value) ==
    IF shape = "dump" THEN EnumMember(class_name, value) ELSE Str(value)

\* the choices for a list of items: none, one item with its optional fields set,
\* one with them unset
ItemChoices == {"none", "full", "bare"}

TeamMembers(shape, choice) ==
    LET member == [name |-> Str("John Doe"), role |-> Str("Developer")]
    IN CASE choice = "none" -> List(<<>>)
         [] choice = "full" -> List(<<Put(member, "email", Str("john@example.com"))>>)
         [] choice = "bare" -> List(<<member @@ Entry(shape, "email", FALSE, None, None)>>)

TaskItems(shape, choice) ==
    LET task == [title |-> Str("Task 1"),
                 status |-> StatusIn(shape, "Status.COMPLETED", "Completed")]
        priority == Entry(shape, "priority", choice = "full",
                          StatusIn(shape, "Priority.HIGH", "High"),
                          StatusIn(shape, "Priority.MEDIUM", "Medium"))
    IN CASE choice = "none" -> List(<<>>)
         [] OTHER -> List(<<task @@ priority
                            @@ Entry(shape, "assignee", choice = "full", Str("John Doe"), None)
                            @@ Entry(shape, "due_date", choice = "full", Str("2024-07-01"), None)
                            @@ Entry(shape, "description", FALSE, None, None)
                            @@ Entry(shape, "tags", FALSE, None, List(<<>>))>>)

Milestones(shape, set) ==
    IF ~set THEN List(<<>>)
    ELSE List(<<[name |-> Str("Release 1.0"), target_date |-> Str("2024-12-31"),
                 status |-> StatusIn(shape, "Status.IN_PROGRESS", "In Progress"),
                 completion_percentage |-> Number(50)]
                @@ Entry(shape, "description", FALSE, None, None)>>)

Risks(shape, choice) ==
    LET risk == [description |-> Str("API downtime"),
                 impact |-> StatusIn(shape, "Priority.HIGH", "High"),
                 likelihood |-> StatusIn(shape, "Priority.LOW", "Low"),
                 mitigation |-> Str("Add a cache")]
    IN CASE choice = "none" -> List(<<>>)
         [] OTHER -> List(<<risk @@ Entry(shape, "owner", choice = "full", Str("Jane"), None)>>)

Phases(choice) ==
    CASE choice = "none" -> List(<<>>)
      [] choice = "full" ->
             List(<<[name |-> Str("Pilot"), description |-> Str("Two teams"),
                     duration |-> Str("4 weeks"),
                     deliverables |-> List(<<Str("Runbook")>>)]>>)
      [] choice = "bare" -> List(<<EmptyDict>>)

\* the fields of ReportData
BaseData(shape) ==
    [title |-> Str("Test Report"), project_name |-> Str("Test Project"),
     author |-> Str("Test Author"), summary |-> Str("A summary")]
    @@ Entry(shape, "date", shape = "dump", Today, None)
    @@ Entry(shape, "version", FALSE, None, Str("1.0"))
    @@ Entry(shape, "custom_fields", FALSE, None, Dict(EmptyDict))

\* what is set in a record: c.texts, c.lists, c.team, ...
DataChoices ==
    [texts : BOOLEAN, notes : SUBSET {"architecture_notes", "progress_notes"},
     lists : BOOLEAN, team : ItemChoices, items : ItemChoices, milestones : BOOLEAN,
     risks : ItemChoices, extras : BOOLEAN]

FeatureDevData(shape, c) ==
    BaseData(shape) @@ [feature_name |-> Str("Test Feature")]
    @@ Entries(shape, <<"repository", "branch", "sprint">>, c.extras, Str("main"), None)
    @@ Entry(shape, "team_members", c.team # "none", TeamMembers(shape, c.team), List(<<>>))
    @@ Entries(shape, <<"objectives", "requirements", "dependencies">>, c.lists,
               List(<<Str("Objective 1"), Str("Objective 2")>>), List(<<>>))
    @@ Entries(shape, <<"technical_approach", "testing_strategy", "deployment_plan">>,
               c.texts, Str("Some text"), Str(""))
    @@ Entry(shape, "architecture_notes", "architecture_notes" \in c.notes,
             Str("Layered"), Str(""))
    @@ Entry(shape, "progress_notes", "progress_notes" \in c.notes,
             Str("On track"), Str(""))
    @@ Entry(shape, "tasks", c.items # "none", TaskItems(shape, c.items), List(<<>>))
    @@ Entry(shape, "milestones", c.milestones, Milestones(shape, TRUE), List(<<>>))
    @@ Entry(shape, "risks", c.risks # "none", Risks(shape, c.risks), List(<<>>))

ProgramMgmtData(shape, c) ==
    BaseData(shape)
    @@ [program_name |-> Str("Test Program"), reporting_period |-> Str("Q2"),
        status |-> StatusIn(shape, "Status.IN_PROGRESS", "In Progress")]
    @@ Entry(shape, "team_members", c.team # "none", TeamMembers(shape, c.team), List(<<>>))
    @@ Entries(shape, <<"stakeholders", "key_achievements", "challenges",
                        "upcoming_activities", "decisions_needed">>, c.lists,
               List(<<Str("Item 1")>>), List(<<>>))
    @@ Entries(shape, <<"executive_summary", "budget_summary">>, c.texts,
               Str("Some text"), Str(""))
    @@ Entry(shape, "kpis", c.items # "none",
             Dict(<< <<"Velocity", Number(42)>> >>), Dict(EmptyDict))
    @@ Entry(shape, "milestones", c.milestones, Milestones(shape, TRUE), List(<<>>))
    @@ Entry(shape, "risks", c.risks # "none", Risks(shape, c.risks), List(<<>>))

EngineeringInitData(shape, c) ==
    BaseData(shape)
    @@ [initiative_name |-> Str("Test Initiative"), initiative_type |-> Str("Process"),
        status |-> StatusIn(shape, "Status.NOT_STARTED", "Not Started")]
    @@ Entries(shape, <<"start_date", "target_completion_date">>, c.extras,
               Str("2024-01-01"), None)
    @@ Entry(shape, "team_members", c.team # "none", TeamMembers(shape, c.team), List(<<>>))
    @@ Entries(shape, <<"sponsors", "objectives", "success_criteria",
                        "architecture_diagrams">>, c.lists,
               List(<<Str("Item 1")>>), List(<<>>))
    @@ Entries(shape, <<"scope", "technical_details", "resources_required",
                        "impact_analysis", "rollout_strategy">>, c.texts,
               Str("Some text"), Str(""))
    @@ Entry(shape, "implementation_phases", c.items # "none", Phases(c.items), List(<<>>))
    @@ Entry(shape, "milestones", c.milestones, Milestones(shape, TRUE), List(<<>>))
    @@ Entry(shape, "risks", c.risks # "none", Risks(shape, c.risks), List(<<>>))

\* the data of a record of the kind
DataOf(report_type, shape, c) ==
    CASE report_type = "program_mgmt" -> ProgramMgmtData(shape, c)
      [] report_type = "engineering_init" -> EngineeringInitData(shape, c)
      [] OTHER -> FeatureDevData(shape, c)

\* report_type as passed to create_docx_report
DocxReportTypes == {rt.value : rt \in Range(ReportType)} \cup {"weekly"}

DocxIdle ==
    /\ python_docx_available = TRUE
    /\ docx_call = None
    /\ docx_result = None

DocxInit ==
    /\ python_docx_available \in BOOLEAN
    /\ docx_call = None
    /\ docx_result = None

\* a call of formatters.docx.create_docx_report, the first of the process
CreateDocxCall ==
    \E report_type \in DocxReportTypes, shape \in Shapes, c \in DataChoices :
        LET data == DataOf(report_type, shape, c)
        IN /\ docx_call = None
           /\ docx_call' = [report_type |-> report_type, shape |-> shape, choices |-> c,
                            data |-> data]
           /\ docx_result' = CreateDocxReport(data, report_type)
           /\ UNCHANGED python_docx_available

-----------------------------------------------------------------------------
(* Helper functions called on their own: the names a tracker uses, in the    *)
(* spellings trackers use                                                     *)

\* the upper-case letter of every lower-case letter
UpperOf ==
    [c \in {SubSeq(LowerLetters, i, i) : i \in 1..Len(LowerLetters)} |->
        LET i == CHOOSE j \in 1..Len(LowerLetters) : SubSeq(LowerLetters, j, j) = c
        IN SubSeq(UpperLetters, i, i)]

UpperChar(c) == IF c \in DOMAIN UpperOf THEN UpperOf[c] ELSE c

RECURSIVE Upper(_)
\* the name in capitals
Upper(s) ==
    IF Len(s) = 0 THEN ""
    ELSE UpperChar(SubSeq(s, 1, 1)) \o Upper(SubSeq(s, 2, Len(s)))

RECURSIVE TitleFrom(_, _)
\* the name with the first letter of each word in capitals
TitleFrom(s, start) ==
    IF Len(s) = 0 THEN ""
    ELSE LET c == SubSeq(s, 1, 1)
         IN (IF start THEN UpperChar(c) ELSE c) \o TitleFrom(SubSeq(s, 2, Len(s)), c = " ")

Spellings == {"lower", "UPPER", "Title", "lOWER"}

\* a lower-case name as a tracker spells it
Spelled(name, spelling) ==
    IF spelling = "UPPER" THEN Upper(name)
    ELSE IF spelling = "Title" THEN TitleFrom(name, TRUE)
    ELSE IF spelling = "lOWER" /\ Len(name) > 0
    THEN SubSeq(name, 1, 1) \o Upper(SubSeq(name, 2, Len(name)))
    ELSE name

\* the priority names _map_priority knows
KnownPriorityNames == {"highest", "critical", "blocker", "high", "medium", "normal"}

\* the status names _map_status knows
KnownStatusNames ==
    {"done", "closed", "resolved", "completed", "in progress", "in development",
     "in review", "blocked", "impediment", "on hold", "paused"}

\* names neither function knows, in lower case
UnknownNames ==
    {"", "low", "lowest", "minor", "major", "urgent", " high", "high ", "to do", "open",
     "in-progress", "onhold"}

\* the names handed to the two functions, in lower case
TrackerNames == KnownPriorityNames \cup KnownStatusNames \cup UnknownNames

RECURSIVE Replace(_, _, _)
\* str.replace for a single character c
Replace(s, c, by) ==
    IF Len(s) = 0 THEN ""
    ELSE (IF SubSeq(s, 1, 1) = c THEN by ELSE SubSeq(s, 1, 1))
         \o Replace(SubSeq(s, 2, Len(s)), c, by)

\* s.startswith(prefix)
StartsWith(s, prefix) == Len(prefix) <= Len(s) /\ SubSeq(s, 1, Len(prefix)) = prefix

\* sub in s
Contains(s, sub) ==
    \E i \in 1..(Len(s) - Len(sub) + 1) : SubSeq(s, i, i + Len(sub) - 1) = sub

\* the converter's escaping of text that is no markup
Escape(s) == Replace(Replace(Replace(s, "&", "&amp;"), "<", "&lt;"), ">", "&gt;")

\* "toc" extension: the id a heading gets
Slugify(s) == Replace(Lower(s), " ", "-")

\* markdown.markdown(..., extensions=["tables", "fenced_code", "codehilite", "toc"])
\* on one block of the text
ConvertBlock(block) ==
    CASE block.kind = "h1" ->
            "<h1 id=\"" \o Slugify(block.text) \o "\">" \o Escape(block.text) \o "</h1>"
      [] block.kind = "p" -> "<p>" \o Escape(block.text) \o "</p>"
      [] block.kind = "code" ->
            "<pre class=\"codehilite\"><code>" \o Escape(block.text) \o "\n</code></pre>"
      [] block.kind = "table" ->
            "<table>\n<thead>\n<tr>\n<th>" \o Escape(block.text)
            \o "</th>\n</tr>\n</thead>\n<tbody>\n</tbody>\n</table>"

RECURSIVE Markdown(_)
\* markdown.markdown(markdown_text, extensions=[...]): the blocks' HTML, one per line
Markdown(blocks) ==
    IF Len(blocks) = 0 THEN ""
    ELSE IF Len(blocks) = 1 THEN ConvertBlock(blocks[1])
    ELSE ConvertBlock(blocks[1]) \o "\n" \o Markdown(Tail(blocks))

\* render_html: css, abridged to its first rule
Css == "\n    <style>\n        body {\n            line-height: 1.6;\n        }\n    </style>\n    "

\* render_html: the f-string up to {css}
ShellHead ==
    "<!DOCTYPE html>\n<html lang=\"en\">\n<head>\n    <meta charset=\"UTF-8\">\n"
    \o "    <title>Report</title>\n    "

\* render_html: the f-string between {css} and {html_content}
ShellBody == "\n</head>\n<body>\n    "

\* render_html: the f-string after {html_content}
ShellTail == "\n</body>\n</html>\n"

\* render_html that wraps the fragment whatever include_css is
RenderHtml_AlwaysWrapped(markdown_text, include_css) ==
    LET html_content == Markdown(markdown_text)
    IN Return(ShellHead \o Css \o ShellBody \o html_content \o ShellTail)

\* formatters/html.py render_html
RenderHtml(markdown_text, include_css) ==
    LET html_content == Markdown(markdown_text)
    IN IF ~include_css THEN Return(html_content)
       ELSE Return(ShellHead \o Css \o ShellBody \o html_content \o ShellTail)

\* blocks of Markdown text: a heading, paragraphs, a table, and a fenced code
\* block that quotes a document declaration
MarkdownBlocks ==
    {[kind |-> "h1", text |-> "Heading"], [kind |-> "h1", text |-> "Weekly Status"],
     [kind |-> "p", text |-> "Paragraph"], [kind |-> "p", text |-> "a < b & c"],
     [kind |-> "table", text |-> "Column 1"],
     [kind |-> "code", text |-> "<!DOCTYPE html>"]}

\* blocks in one Markdown text
MaxBlocks == 2

MarkdownTexts == UNION {[1..n -> MarkdownBlocks] : n \in 0..MaxBlocks}

\* confluence_client.py: what an instance of ConfluenceClient has: the
\* attributes __init__ sets and the methods the class defines
ConfluenceClientAttrs ==
    {"url", "headers", "get_page_by_title", "create_page", "update_page",
     "create_or_update_page", "get_page_url"}

\* confluence_client.<name>(...): AttributeError for a name the instance has not
CallMethod(attrs, name, value) ==
    IF name \in attrs THEN Return(value) ELSE Raise("AttributeError")

\* create_confluence_client(config)
CreateConfluenceClient(config) ==
    IF {"url", "api_token"} \subseteq DOMAIN config THEN Return(ConfluenceClientAttrs)
    ELSE Raise("ValueError")

\* Path(name).stem
Stem(name) == SubSeq(name, 1, Len(name) - Len(Suffix(name)))

\* how a run of a command ends: the exit code and the client calls it made
Exit(exit_code, calls) == [exit_code |-> exit_code, calls |-> calls]

\* cli.py push_confluence, from the loaded config file on; publish is what
\* create_or_update_page returns or raises when it is called
PushConfluence(config_json, report_file, title, space, parent_id, publish) ==
    LET confluence_config == Get(config_json, "confluence", EmptyDict)
        confluence_client == CreateConfluenceClient(confluence_config)
    IN IF confluence_client.raised THEN Exit(1, <<>>)
       ELSE IF Suffix(report_file) \notin {".html", ".htm"} THEN Exit(1, <<>>)
       ELSE LET html_content ==
                    CallMethod(confluence_client.value, "prepare_html_for_confluence",
                               "<html>")
            IN IF html_content.raised THEN Exit(1, <<>>)
               ELSE LET space_key == IF Truthy(space) THEN space
                                     ELSE Get(confluence_config, "space_key", None)
                        page_title == IF Truthy(title) THEN title
                                      ELSE Str(Stem(report_file))
                        page_parent_id == IF Truthy(parent_id) THEN parent_id
                                          ELSE Get(confluence_config, "parent_page_id", None)
                        calls == <<[method |-> "create_or_update_page",
                                    space_key |-> space_key, title |-> page_title,
                                    content |-> html_content.value,
                                    parent_id |-> page_parent_id]>>
                    IN IF ~Truthy(space_key) THEN Exit(1, <<>>)
                       ELSE IF publish.raised THEN Exit(1, calls)
                       ELSE Exit(0, calls)

\* the "confluence" sections of conflu.json files, and a file without the section
ConfluenceConfigs ==
    LET full == [url |-> Str("https://wiki.example.com"), api_token |-> Str("pat"),
                 space_key |-> Str("DOC"), parent_page_id |-> Str("77")]
    IN {[confluence |-> [k \in keys |-> full[k]]] : keys \in SUBSET DOMAIN full}
       \cup {EmptyDict}

ReportFiles == {"report.html", "weekly.htm", "report.HTML", "report.md", "report"}

\* an option of the command line: not given, or given with a value
Option(value) == {None, Str(value)}

\* what create_or_update_page does when called: returns the page or raises
PublishOutcomes == {Return([id |-> "10"]), Raise("Exception")}

\* no helper function was called yet; each behaviour holds one call
FnIdle ==
    /\ fn_call = [op |-> "none"]
    /\ fn_result = None

\* a call of JiraClient._map_priority(jira_priority)
MapPriorityCall ==
    \E name \in TrackerNames, spelling \in Spellings :
        /\ fn_call.op = "none"
        /\ fn_call' = [op |-> "_map_priority", name |-> Spelled(name, spelling),
                       lower_name |-> name]
        /\ fn_result' = MapPriority(Str(Spelled(name, spelling)))

\* a run of `report-gen push-confluence REPORT_FILE [options]`
PushConfluenceCall ==
    \E config_json \in ConfluenceConfigs, report_file \in ReportFiles,
       title \in Option("Weekly"), space \in Option("TEAM"), parent_id \in Option("88"),
       publish \in PublishOutcomes :
        /\ fn_call.op = "none"
        /\ fn_call' = [op |-> "push-confluence", config |-> config_json,
                       report_file |-> report_file, title |-> title, space |-> space,
                       parent_id |-> parent_id, publish |-> publish]
        /\ fn_result' = PushConfluence(config_json, report_file, title, space, parent_id,
                                       publish)

\* a call of formatters.html.render_html(markdown_text, include_css)
RenderHtmlCall ==
    \E markdown_text \in MarkdownTexts, include_css \in BOOLEAN :
        /\ fn_call.op = "none"
        /\ fn_call' = [op |-> "render_html", markdown_text |-> markdown_text,
                       include_css |-> include_css]
        /\ fn_result' = RenderHtml(markdown_text, include_css)

\* a call of JiraClient.issue_to_task_data(issue)
IssueToTaskDataCall ==
    \E issue \in Issues :
        /\ fn_call.op = "none"
        /\ fn_call' = [op |-> "issue_to_task_data", issue |-> issue]
        /\ fn_result' = IssueToTaskData(issue)

\* a call of JiraClient._map_status(jira_status)
MapStatusCall ==
    \E name \in TrackerNames, spelling \in Spellings :
        /\ fn_call.op = "none"
        /\ fn_call' = [op |-> "_map_status", name |-> Spelled(name, spelling),
                       lower_name |-> name]
        /\ fn_result' = MapStatus(Str(Spelled(name, spelling)))

-----------------------------------------------------------------------------
(* Specifications *)

Init ==
    /\ GenInit /\ JiraIdle /\ ConfIdle /\ SessIdle /\ ModelIdle /\ DocxIdle
    /\ FnIdle

\* the generator's API without the file system
Next == GenerateCall \/ ListTemplatesCall

Spec == Init /\ [][Next]_vars

\* generate_to_file and the file system
NextFile == GenerateToFileCall

SpecFile == Init /\ [][NextFile]_vars

\* generate_to_file in a directory that may hold earlier reports
InitFileExisting ==
    /\ GenInitExisting /\ JiraIdle /\ ConfIdle /\ SessIdle /\ ModelIdle /\ DocxIdle
    /\ FnIdle

SpecFileExisting == InitFileExisting /\ [][NextFile]_vars

\* the JIRA sync
InitJira ==
    /\ GenIdle /\ JiraInit /\ ConfIdle /\ SessIdle /\ ModelIdle /\ DocxIdle
    /\ FnIdle

NextJira ==
    SyncTasksCall /\ UNCHANGED <<genVars, confVars, sessVars, modelVars, docxVars, fnVars>>

SpecJira == InitJira /\ [][NextJira]_vars

\* the Confluence publisher and its wiki
InitConf ==
    /\ GenIdle /\ JiraIdle /\ ConfInit /\ SessIdle /\ ModelIdle /\ DocxIdle
    /\ FnIdle

NextConf ==
    /\ \/ \E c \in Clients : Lookup(c)
       \/ \E c \in Clients : Update(c)
       \/ \E c \in Clients : Create(c)
       \/ OtherWriter
    /\ UNCHANGED <<genVars, jiraVars, sessVars, modelVars, docxVars, fnVars>>

SpecConf == InitConf /\ [][NextConf]_vars

\* cli.py: the command of this run.  sync-jira builds a JiraClient from the
\* configured tracker, push-confluence a ConfluenceClient and no JiraClient
Command == IF jira_server # <<>> THEN "sync-jira" ELSE "push-confluence"

\* one run of a command that talks to a remote service
InitRemote == InitJira \/ InitConf

NextRemote ==
    \/ Command = "sync-jira" /\ NextJira
    \/ Command = "push-confluence" /\ NextConf

SpecRemote == InitRemote /\ [][NextRemote]_vars

\* the helper functions, each called on its own
InitFunctions ==
    /\ GenIdle /\ JiraIdle /\ ConfIdle /\ SessIdle /\ ModelIdle /\ DocxIdle
    /\ FnIdle

NextFunctions ==
    /\ \/ MapPriorityCall
       \/ MapStatusCall
       \/ PushConfluenceCall
       \/ RenderHtmlCall
       \/ IssueToTaskDataCall
    /\ UNCHANGED <<genVars, jiraVars, confVars, sessVars, modelVars, docxVars>>

SpecFunctions == InitFunctions /\ [][NextFunctions]_vars

\* one generator, call after call
InitSession ==
    /\ GenInit /\ JiraIdle /\ ConfIdle /\ SessInit /\ ModelIdle /\ DocxIdle
    /\ FnIdle

NextSession == SessionGenerate \/ HtmlToPdfCall

SpecSession == InitSession /\ [][NextSession]_vars

\* the records of models.py
InitModels ==
    /\ GenIdle /\ JiraIdle /\ ConfIdle /\ SessIdle /\ ModelIdle /\ DocxIdle
    /\ FnIdle

NextModels ==
    ConstructCall /\ UNCHANGED <<genVars, jiraVars, confVars, sessVars, docxVars, fnVars>>

SpecModels == InitModels /\ [][NextModels]_vars

\* the rich-document builder
InitDocx ==
    /\ GenIdle /\ JiraIdle /\ ConfIdle /\ SessIdle /\ ModelIdle /\ DocxInit
    /\ FnIdle

NextDocx ==
    CreateDocxCall /\ UNCHANGED <<genVars, jiraVars, confVars, sessVars, modelVars, fnVars>>

SpecDocx == InitDocx /\ [][NextDocx]_vars

-----------------------------------------------------------------------------
(* Claims about the generator *)

\* whether string s ends with string e
EndsWith(s, e) == Len(s) >= Len(e) /\ SubSeq(s, Len(s) - Len(e) + 1, Len(s)) = e

\* content the rich-document builder produces (a DOCX byte string)
IsDocx(content) == "docx_bytes" \in DOMAIN content

\* the kind+format-extension convention of the templates
ConventionName(report_type, output_format) ==
    report_type.value \o "." \o
    (IF output_format = OutputFormat_MARKDOWN THEN "md" ELSE "html") \o ".j2"

\* C1: for a valid record, the built-in templates and the converters installed,
\* generate returns a result without raising in each of the four output formats,
\* and for DOCX the result is a non-empty DOCX byte string.
C1_GenerateSucceedsInEveryFormat ==
    ( /\ call.op = "generate"
      /\ call.template_name = None
      /\ "model" \in DOMAIN report_data
      /\ templates = BuiltinTemplates
      /\ weasyprint_available )
    => /\ ~result.raised
       /\ call.output_format = OutputFormat_DOCX => IsDocx(result.value)

\* C2: generate_to_file without an explicit output_format and with a path ending
\* in .docx or .doc selects the DOCX format and writes a DOCX document.
C2_DocxExtensionSelectsDocx ==
    ( /\ call.op = "generate_to_file"
      /\ call.output_format = None
      /\ call.template_name = None
      /\ templates = BuiltinTemplates
      /\ EndsWith(call.output_path, ".docx") \/ EndsWith(call.output_path, ".doc") )
    => /\ used_format = OutputFormat_DOCX
       /\ ~result.raised
       /\ files[call.output_path] # NoFile
       /\ IsDocx(files[call.output_path].content)

\* C3: generate_to_file without an explicit output_format chooses Markdown for
\* .md and .markdown, HTML for .html and PDF for .pdf; an explicit output_format
\* is used instead of the extension.
C3_FormatFromExtension ==
    call.op = "generate_to_file" =>
        /\ call.output_format = None =>
            /\ EndsWith(call.output_path, ".md") => used_format = OutputFormat_MARKDOWN
            /\ EndsWith(call.output_path, ".markdown") => used_format = OutputFormat_MARKDOWN
            /\ EndsWith(call.output_path, ".html") => used_format = OutputFormat_HTML
            /\ EndsWith(call.output_path, ".pdf") => used_format = OutputFormat_PDF
        /\ call.output_format # None => used_format = call.output_format

\* C3 witness: a PDF file was written for a .pdf path with no explicit format, and
\* (in another call) an explicit format overrode the extension.
C3_Witness ==
    /\ call.op = "generate_to_file"
    /\ \/ /\ call.output_format = None
          /\ call.output_path = "report.pdf"
          /\ ~result.raised
          /\ files["report.pdf"] # NoFile
          /\ IsBytes(files["report.pdf"].content)
       \/ /\ call.output_format = OutputFormat_HTML
          /\ call.output_path = "report.md"
          /\ ~result.raised
          /\ files["report.md"] # NoFile

\* the extensions section 6 of the specification lists
RecognizedExtensions == {".md", ".markdown", ".html", ".pdf", ".docx", ".doc"}

Unrecognized(output_path) ==
    \A e \in RecognizedExtensions : ~EndsWith(Lower(output_path), e)

\* C4: generate_to_file without an explicit output_format and with a path whose
\* extension is not recognized (or that has none) selects Markdown, and the call
\* fails only when generate fails for the Markdown format: the Markdown template
\* (or the override) is missing.
C4_UnrecognizedExtensionIsMarkdown ==
    ( /\ call.op = "generate_to_file"
      /\ call.output_format = None
      /\ Unrecognized(call.output_path) )
    => /\ used_format = OutputFormat_MARKDOWN
       /\ result.raised =>
            /\ result.error = "TemplateNotFound"
            /\ used_template # None
            /\ used_template.str \notin templates
       /\ ~result.raised =>
            /\ files[call.output_path] # NoFile
            /\ files[call.output_path].mode = "w"

\* C4 witness: a file without an extension was written as Markdown text.
C4_Witness ==
    /\ call.op = "generate_to_file"
    /\ call.output_format = None
    /\ call.output_path = "report"
    /\ call.template_name = None
    /\ ~result.raised
    /\ files["report"] # NoFile
    /\ files["report"].content =
           Render(ConventionName(call.report_type, OutputFormat_MARKDOWN),
                  DataDict(report_data))

\* C25: when generate fails (no format entry, template not found, converter
\* unavailable), generate_to_file raises that error and the file system is as it
\* was: the file at output_path is neither created nor modified.
C25_FailedGenerateWritesNothing ==
    [][(call'.op = "generate_to_file" /\ ncalls' = ncalls + 1) =>
          LET content == Generate(call'.report_data, call'.report_type, used_format',
                                  call'.template_name)
          IN content.raised =>
                 /\ result' = content
                 /\ files' = files]_vars

\* a call for a path that held an earlier report failed because the converter
\* is unavailable; the earlier report is still there
C25_Witness ==
    /\ call.op = "generate_to_file"
    /\ call.output_path = "report.pdf"
    /\ result = Raise("ImportError")
    /\ files["report.pdf"] = EarlierFile

\* C9: list_templates returns, without raising, a mapping with one key per report
\* kind, each mapped to the list of that kind's template names that exist.
C9_ListTemplatesReturnsMapping ==
    call.op = "list_templates" =>
        /\ ~result.raised
        /\ DOMAIN result.value = {rt.value : rt \in Range(ReportType)}
        /\ \A rt \in Range(ReportType) :
               Range(result.value[rt.value]) =
                   {n \in templates : \E ext \in {"md", "html"} :
                        n = rt.value \o "." \o ext \o ".j2"}

-----------------------------------------------------------------------------
(* Claims about the JIRA sync *)

\* the keys of a task dictionary
TaskKeys ==
    {"title", "jira_id", "description", "status", "priority", "assignee", "due_date",
     "target_start_date", "target_end_date", "tags"}

\* the value of a task's field, Absent when the task has no such key
Field(task, key) == Get(task, key, Absent)

\* task i of task_list was synced: it has a jira_id, the tracker returned its
\* issue and the issue was converted
Synced(i) ==
    /\ Truthy(Get(task_list[i], "jira_id", None))
    /\ ~GetIssue(jira_server, task_list[i].jira_id.str).raised
    /\ ~IssueToTaskData(GetIssue(jira_server, task_list[i].jira_id.str).value).raised

\* task i of task_list has a jira_id and fetching or converting its issue failed
SyncFailed(i) == Truthy(Get(task_list[i], "jira_id", None)) /\ ~Synced(i)

\* the position, among the lines sync_tasks printed, of the line about task i
PrintedIndex(i) ==
    Cardinality({j \in 1..i : Truthy(Get(task_list[j], "jira_id", None))})

\* the issue the tracker returned for task i
IssueOf(i) == GetIssue(jira_server, task_list[i].jira_id.str).value

\* the 'name' the tracker gave under fields[field], Absent when it gave none
FetchedName(fields, field) ==
    LET v == Get(fields, field, Absent)
    IN IF IsDict(v) THEN Get(v.dict, "name", Absent) ELSE v

\* the value the tracker returned for a task field: the issue's own entry for it
\* (for the target dates the custom field when the issue has it, and otherwise
\* the created and due dates that stand in for it)
FetchedFor(issue, key) ==
    LET fields == Get(issue, "fields", EmptyDict)
        assignee == Get(fields, "assignee", Absent)
    IN CASE key = "title" -> Get(fields, "summary", Absent)
         [] key = "jira_id" -> Get(issue, "key", Absent)
         [] key = "description" -> Get(fields, "description", Absent)
         [] key = "status" -> FetchedName(fields, "status")
         [] key = "priority" -> FetchedName(fields, "priority")
         [] key = "assignee" ->
                IF IsDict(assignee)
                THEN Get(assignee.dict, "displayName", Get(assignee.dict, "name", Absent))
                ELSE assignee
         [] key = "due_date" -> Get(fields, "duedate", Absent)
         [] key = "target_start_date" ->
                IF "customfield_10015" \in DOMAIN fields THEN fields["customfield_10015"]
                ELSE Get(fields, "created", Absent)
         [] key = "target_end_date" ->
                IF "customfield_10016" \in DOMAIN fields THEN fields["customfield_10016"]
                ELSE Get(fields, "duedate", Absent)
         [] key = "tags" -> Get(fields, "labels", Absent)

\* absent, null or the empty string
Empty(v) == v = Absent \/ IsNone(v) \/ v = Str("")

\* C5: after sync_tasks, for every synced task and every task field, if the value
\* the issue tracker returned for that field was empty (absent, null or empty
\* string), the field still holds the value it had locally before the sync.
C5_EmptyFetchedKeepsLocal ==
    sync # None =>
        \A i \in 1..Len(task_list) :
            Synced(i) =>
                \A key \in TaskKeys :
                    Empty(FetchedFor(IssueOf(i), key)) =>
                        Field(sync.updated_tasks[i], key) = Field(task_list[i], key)

\* C6 as claimed: a fetched value replaces a task field only when the local field
\* is empty or missing; a non-empty local field keeps its value.
C6_NonEmptyLocalKept ==
    sync # None =>
        \A i \in 1..Len(task_list) :
            \A key \in DOMAIN task_list[i] :
                Truthy(task_list[i][key]) => sync.updated_tasks[i][key] = task_list[i][key]

\* C6 as amended: for every synced task and every task field, the field holds
\* the converted fetched value (issue_to_task_data) whenever that value is
\* neither absent, None nor '', whatever the local value was, and holds its
\* local value otherwise.
C6_FetchedNonEmptyWins ==
    sync # None =>
        \A i \in 1..Len(task_list) :
            Synced(i) =>
                LET jira_data == IssueToTaskData(IssueOf(i)).value
                IN \A key \in TaskKeys :
                       Field(sync.updated_tasks[i], key) =
                           IF Empty(Field(jira_data, key)) THEN Field(task_list[i], key)
                           ELSE jira_data[key]

\* C6 witness: a task with a non-empty local title and description was synced
\* against an issue with another summary and an empty description: the title is
\* the fetched one, the description the local one.
C6_Witness ==
    /\ sync # None
    /\ Len(task_list) >= 1
    /\ task_list[1] = FullTask
    /\ Synced(1)
    /\ FetchedFor(IssueOf(1), "description") = Str("")
    /\ sync.updated_tasks[1].title = Str("Fetched title")
    /\ sync.updated_tasks[1].description = Str("Local text")

\* C24: sync_tasks returns as many tasks as it was given, in the same order.  A
\* task whose issue could not be fetched or converted is returned with every
\* field unchanged and a failure line is printed for it; every task, whatever
\* happened to the tasks before it, is returned as a sync of it alone returns it,
\* and a success line is printed for each task that was synced.
C24_FailureSkipsOneTask ==
    sync # None =>
        /\ Len(sync.updated_tasks) = Len(task_list)
        /\ \A i \in DOMAIN task_list :
               LET jira_id == Get(task_list[i], "jira_id", None)
                   alone == SyncTasks(jira_server, <<task_list[i]>>)
               IN /\ DOMAIN task_list[i] \subseteq DOMAIN sync.updated_tasks[i]
                  /\ sync.updated_tasks[i] = alone.updated_tasks[1]
                  /\ SyncFailed(i) =>
                         /\ sync.updated_tasks[i] = task_list[i]
                         /\ PrintedIndex(i) \in DOMAIN sync.printed
                         /\ sync.printed[PrintedIndex(i)] = [failed |-> jira_id.str]
                  /\ Synced(i) =>
                         /\ PrintedIndex(i) \in DOMAIN sync.printed
                         /\ sync.printed[PrintedIndex(i)] = [synced |-> jira_id.str]

\* the first task's issue is unknown to the tracker, the second task was synced
\* and has the fetched title
C24_Witness ==
    /\ sync # None
    /\ Len(task_list) = 2
    /\ task_list[1] = UnknownTask
    /\ SyncFailed(1)
    /\ sync.updated_tasks[1] = UnknownTask
    /\ task_list[2] = FullTask
    /\ Synced(2)
    /\ sync.updated_tasks[2].title = Str("Fetched title")
    /\ sync.printed = <<[failed |-> "P-2"], [synced |-> "P-1"]>>

\* task i of task_list has no jira_id: the key is absent or its value is empty
NoJiraId(i) ==
    \/ "jira_id" \notin DOMAIN task_list[i]
    \/ task_list[i].jira_id \in {None, Str("")}

\* C29: in sync_tasks a task without a jira_id (absent or empty) causes no
\* request and is returned with all its fields unchanged: the requests sent are
\* as many as the tasks that have a jira_id, each for the jira_id of such a task.
C29_NoJiraIdNoRequest ==
    sync # None =>
        /\ \A i \in DOMAIN task_list :
               NoJiraId(i) => sync.updated_tasks[i] = task_list[i]
        /\ Len(sync.requests) = Cardinality({i \in DOMAIN task_list : ~NoJiraId(i)})
        /\ \A k \in DOMAIN sync.requests :
               \E i \in DOMAIN task_list :
                   ~NoJiraId(i) /\ task_list[i].jira_id = Str(sync.requests[k])
        /\ Len(sync.printed) = Len(sync.requests)

\* a task without the key and a task with an empty jira_id went through a sync
\* that sent nothing
C29_Witness ==
    /\ sync # None
    /\ task_list = <<NoJiraTask, EmptyJiraTask>>
    /\ sync.updated_tasks = task_list
    /\ sync.requests = <<>>
    /\ "json" \in DOMAIN jira_server["P-1"]

-----------------------------------------------------------------------------
(* Claims about the Confluence publisher *)

\* the requests client c sent, in the order it sent them
RequestsOf(c) == SelectSeq(conf_requests, LAMBDA r : r.client = c)

\* the "ancestors" a POST carries; <<>> when it carries none
AncestorsOf(request) == Get(request.data, "ancestors", <<>>)

\* C7: a finished create_or_update_page call sent exactly one lookup, first,
\* for its own space key and title; when the lookup returned a page the call
\* sent one more request, an update of that page's id carrying the found
\* version number plus one; when the lookup returned no page the call sent one
\* more request, a create of that space and title, under parent_id when one was
\* given (neither None nor '') and under nothing otherwise.
C7_LookupThenOneWrite ==
    \A c \in Clients :
        client[c].pc = "done" =>
            LET reqs == RequestsOf(c)
                found == reqs[1].results
            IN /\ Len(reqs) >= 1
               /\ reqs[1].method = "GET"
               /\ reqs[1].spaceKey = client[c].space_key
               /\ reqs[1].title = client[c].title
               /\ \A i \in 2..Len(reqs) : reqs[i].method # "GET"
               /\ (reqs[1].status = 200 /\ found # <<>>) =>
                      /\ Len(reqs) = 2
                      /\ reqs[2].method = "PUT"
                      /\ reqs[2].id = found[1].id
                      /\ reqs[2].data.version = found[1].version + 1
               /\ (reqs[1].status = 200 /\ found = <<>>) =>
                      /\ Len(reqs) = 2
                      /\ reqs[2].method = "POST"
                      /\ reqs[2].data.space = client[c].space_key
                      /\ reqs[2].data.title = client[c].title
                      /\ AncestorsOf(reqs[2]) =
                             IF client[c].parent_id \in {None, Str("")} THEN <<>>
                             ELSE <<client[c].parent_id.str>>

\* C7 witness: one call found the page and its update was accepted, another
\* found none and created the page under the parent it was given.
C7_Witness ==
    \E c, d \in Clients :
        /\ client[c].pc = "done" /\ client[d].pc = "done"
        /\ Len(RequestsOf(c)) = 2 /\ Len(RequestsOf(d)) = 2
        /\ RequestsOf(c)[2].method = "PUT" /\ RequestsOf(c)[2].status = 200
        /\ RequestsOf(d)[2].method = "POST" /\ RequestsOf(d)[2].status = 200
        /\ AncestorsOf(RequestsOf(d)[2]) = <<"77">>

\* the page client c found is no longer at the version c found it at
ModifiedSinceLookup(c) ==
    \E k \in KeysOfId(client[c].existing_page.id) :
        wiki[k].version # client[c].existing_page.version

\* C8: when the page was modified after a call looked it up, the call's update
\* leaves the wiki as it is and the call raises; unless the request failed for
\* another reason the response is 409 and the error the version conflict.
C8_ConflictRejected ==
    [][\A c \in Clients :
           (client[c].pc = "update" /\ client'[c].pc = "done" /\ ModifiedSinceLookup(c)) =>
               LET request == conf_requests'[Len(conf_requests')]
               IN /\ wiki' = wiki
                  /\ client'[c].result.raised
                  /\ request.status \notin Faults =>
                         /\ request.status = 409
                         /\ client'[c].result = Raise("Exception: Version conflict")]_vars

\* C8 witness: a call ended with the version conflict and the page holds what
\* the other writer wrote, at a later version than the one the call had found.
C8_Witness ==
    \E c \in Clients :
        /\ client[c].pc = "done"
        /\ client[c].result = Raise("Exception: Version conflict")
        /\ \E k \in KeysOfId(client[c].existing_page.id) :
               /\ wiki[k].body = "theirs"
               /\ wiki[k].version > client[c].existing_page.version

\* no page of this space and title existed before the clients ran: pages are
\* never deleted, and the pages the clients create get the ids from 10 on
StartedWithout(k) == wiki[k] = None \/ wiki[k].id >= 10

\* the create requests sent for this space and title, by their position in the log
CreateRequests(k) ==
    {i \in DOMAIN conf_requests :
        /\ conf_requests[i].method = "POST"
        /\ conf_requests[i].data.space = k[1]
        /\ conf_requests[i].data.title = k[2]}

\* C26 as claimed: for two concurrent create_or_update_page calls with the same
\* space key and title, starting when no page of that title exists, at most one
\* create request is issued.
C26_AtMostOneCreateRequest ==
    \A k \in DOMAIN wiki :
        StartedWithout(k) => Cardinality(CreateRequests(k)) <= 1

\* C26 as amended: each of the calls issues at most one create request for the
\* title, so up to two are issued; the wiki accepts at most one of them, and a
\* call whose create was not accepted has ended by raising.
C26_AtMostOneCreateAccepted ==
    \A k \in DOMAIN wiki :
        StartedWithout(k) =>
            /\ \A c \in Clients :
                   Cardinality({i \in CreateRequests(k) : conf_requests[i].client = c}) <= 1
            /\ Cardinality({i \in CreateRequests(k) : conf_requests[i].status = 200}) <= 1
            /\ \A i \in CreateRequests(k) :
                   conf_requests[i].status # 200 =>
                       /\ client[conf_requests[i].client].pc = "done"
                       /\ client[conf_requests[i].client].result.raised

\* both calls looked the title up before either created it: two create requests
\* were sent, the first was accepted and the second refused as invalid
C26_Witness ==
    \E k \in DOMAIN wiki :
        /\ StartedWithout(k)
        /\ wiki[k] # None
        /\ \E i, j \in CreateRequests(k) :
               /\ i < j
               /\ conf_requests[i].client # conf_requests[j].client
               /\ conf_requests[i].status = 200
               /\ conf_requests[j].status = 400
               /\ client[conf_requests[j].client].result =
                      Raise("Exception: Failed to create page: Invalid data")

\* C28: when the lookup of a create_or_update_page call fails, the lookup leaves
\* the wiki's pages as they are, the call has ended by raising, and the lookup
\* is the only request the call ever sends: no create, no update.
C28_FailedLookupEndsCall ==
    [][\A c \in Clients :
           LET reqs == SelectSeq(conf_requests', LAMBDA r : r.client = c)
           IN (reqs # <<>> /\ reqs[1].status # 200) =>
                  /\ Len(reqs) = 1
                  /\ reqs[1].method = "GET"
                  /\ client'[c].pc = "done"
                  /\ client'[c].result.raised
                  /\ client[c].pc = "idle" => wiki' = wiki]_vars

\* a call whose lookup was refused (403) ended with that error after its one
\* request, while the other call went on to write
C28_Witness ==
    \E c, d \in Clients :
        /\ RequestsOf(c) # <<>>
        /\ RequestsOf(c)[1].status = 403
        /\ Len(RequestsOf(c)) = 1
        /\ client[c].result = Raise("Exception: Failed to get page")
        /\ Len(RequestsOf(d)) = 2
        /\ RequestsOf(d)[2].status = 200

-----------------------------------------------------------------------------
(* Claims about a generator used for a series of calls *)

\* whether the last call was generate with one of these formats
GeneratedAs(formats) == call.op = "generate" /\ call.output_format \in formats

\* whether the last generate call found the template it selected
TemplateLoaded == used_template # None /\ used_template.str \in templates

\* C11: without the PDF engine, html_to_pdf raises ImportError; generate with
\* the PDF format never returns, and raises ImportError whenever its template
\* was found (the conversion is reached); and once a conversion has failed
\* that way, a Markdown or HTML generate whose template is found returns the
\* rendered text.
C11_PdfUnavailable ==
    ~weasyprint_available =>
        /\ call.op = "html_to_pdf" => result = Raise("ImportError")
        /\ GeneratedAs({OutputFormat_PDF}) =>
               /\ result.raised
               /\ TemplateLoaded => result = Raise("ImportError")
        /\ (failed_pdf /\ GeneratedAs({OutputFormat_MARKDOWN, OutputFormat_HTML})
                /\ TemplateLoaded) =>
               result = Return(Render(used_template.str, DataDict(call.report_data)))

\* C11 witness: after a PDF conversion failed as unavailable, a Markdown
\* generation on the same generator returned.
C11_Witness ==
    /\ ~weasyprint_available
    /\ failed_pdf
    /\ GeneratedAs({OutputFormat_MARKDOWN})
    /\ ~result.raised

-----------------------------------------------------------------------------
(* Claims about the records *)

\* whether the last construction was of this class
Constructed(cls) == model_call # None /\ model_call.cls = cls

\* the keyword given for a field, Absent when it was not given
Given(field) == Get(model_call.kwargs, field, Absent)

\* whether the completion percentage given is an integer of 0..100
InRange(value) == IsInt(value) /\ value.int \in completion_ge..completion_le

\* C12: the construction of a Milestone whose other fields are given returns a
\* Milestone exactly when completion_percentage is omitted or an integer of
\* 0..100, the field then being 0 or that integer; any other value, and in
\* particular any integer below 0 or above 100, raises ValidationError, whatever
\* the other fields are.
C12_MilestoneCompletion ==
    Constructed("Milestone") =>
        LET given == Given("completion_percentage")
        IN /\ RequiredFields("Milestone") \subseteq DOMAIN model_call.kwargs =>
                  (~model_result.raised <=> (given = Absent \/ InRange(given)))
           /\ ~model_result.raised =>
                  model_result.value.completion_percentage =
                      IF given = Absent THEN Number(0) ELSE given
           /\ (given # Absent /\ ~InRange(given)) =>
                  model_result = Raise("ValidationError")

\* C12 witness: a Milestone was constructed with the largest percentage allowed.
C12_Witness ==
    /\ Constructed("Milestone")
    /\ Given("completion_percentage") = Number(completion_le)
    /\ ~model_result.raised
    /\ model_result.value.completion_percentage = Number(completion_le)

\* the keywords of the last construction that its class does not declare
UnknownFields == DOMAIN model_call.kwargs \ ModelFields(model_call.cls)

\* C13: a construction from a mapping with a field the class does not declare
\* raises ValidationError.
C13_UnknownFieldRejected ==
    (model_call # None /\ UnknownFields # {}) => model_result = Raise("ValidationError")

-----------------------------------------------------------------------------
(* Claims about the sections of a report *)

\* the ordered section titles a template produces: the kind's populated sections,
\* whatever the encoding the template is written in
TemplateSectionTitles(template, data_dict) ==
    [sections_of |-> SplitFirst(template, "."), data |-> data_dict]

\* the ordered section titles of what generate returned: of the rendered text,
\* or of the HTML a PDF was converted from
SectionTitlesOf(content) ==
    LET rendered == IF "pdf_bytes" \in DOMAIN content THEN content.pdf_bytes ELSE content
    IN TemplateSectionTitles(rendered.text.template, rendered.text.data)

\* C14: for a record, the built-in templates and the converters installed,
\* generate returns a document in each of the four formats, and its ordered
\* section titles are those of the Markdown rendering of the same record.
C14_SameSectionsInEveryFormat ==
    ( /\ call.op = "generate"
      /\ call.template_name = None
      /\ templates = BuiltinTemplates
      /\ weasyprint_available )
    => /\ ~result.raised
       /\ SectionTitlesOf(result.value) =
              SectionTitlesOf(Generate(call.report_data, call.report_type,
                                       OutputFormat_MARKDOWN, None).value)

-----------------------------------------------------------------------------
(* Claims about the rich-document builder *)

\* whether the last create_docx_report call returned a document
DocxBuilt == docx_call # None /\ ~docx_result.raised

\* the blocks of that document
DocxBody == docx_result.value.docx_bytes.body

\* the positions of the blocks that are headings of one of the levels
HeadingsAt(blocks, levels) ==
    SelectSeq([i \in 1..Len(blocks) |-> i],
              LAMBDA i : blocks[i].block = "heading" /\ blocks[i].level \in levels)

\* the level-1 headings each builder always adds, in its order
FixedSections(report_type) ==
    CASE report_type = "feature_dev" ->
             <<"Executive Summary", "Team", "Objectives", "Requirements",
               "Technical Approach", "Tasks & Progress", "Milestones", "Testing Strategy",
               "Deployment Plan", "Risks & Mitigation", "Dependencies">>
      [] report_type = "program_mgmt" ->
             <<"Executive Summary", "Stakeholders", "Team Composition",
               "Key Performance Indicators (KPIs)", "Milestones & Progress",
               "Key Achievements", "Challenges", "Risks", "Budget Summary",
               "Upcoming Activities", "Decisions Needed">>
      [] report_type = "engineering_init" ->
             <<"Executive Summary", "Sponsors", "Team", "Objectives", "Scope",
               "Technical Details", "Implementation Phases", "Success Criteria",
               "Milestones", "Impact Analysis", "Resources Required",
               "Risks & Mitigation", "Rollout Strategy">>

\* whether a block shows something: a table, or a text that is not empty
Shows(b) == b.block = "table" \/ b.text # ""

\* whether every level-1 section of the blocks has a block that shows something
\* before the next level-1 heading
EverySectionHasBody(blocks) ==
    LET at == HeadingsAt(blocks, {1})
    IN \A n \in 1..Len(at) :
           LET last == IF n < Len(at) THEN at[n + 1] - 1 ELSE Len(blocks)
           IN \E i \in (at[n] + 1)..last : Shows(blocks[i])

\* whether the record of the last call has all its lists empty
AllListsEmpty ==
    /\ ~docx_call.choices.lists
    /\ docx_call.choices.team = "none"
    /\ docx_call.choices.items = "none"
    /\ ~docx_call.choices.milestones
    /\ docx_call.choices.risks = "none"

\* C15: the document built for a record whose optional lists are all empty has
\* the fixed level-1 headings of its kind, in their order, and every one of
\* these sections has a body that is not empty.
C15_EmptyListsKeepSections ==
    (DocxBuilt /\ AllListsEmpty) =>
        /\ [n \in 1..Len(HeadingsAt(DocxBody, {1})) |->
               DocxBody[HeadingsAt(DocxBody, {1})[n]].text]
               = FixedSections(docx_call.report_type)
        /\ EverySectionHasBody(DocxBody)

\* the texts of the cells of the blocks' tables; tables have a header row and
\* one data row here, or the metadata rows
TableCells(blocks) ==
    UNION {UNION {{blocks[i].rows[r][c] : c \in 1..Len(blocks[i].rows[r])} :
                     r \in 1..Len(blocks[i].rows)} :
              i \in {j \in 1..Len(blocks) : blocks[j].block = "table"}}

\* C16: in a built document no table cell is empty or the text None, and no
\* level-1 section has an empty body: an optional field that is unset shows as
\* a placeholder.
C16_UnsetFieldsShowPlaceholders ==
    DocxBuilt =>
        /\ TableCells(DocxBody) \cap {"", "None"} = {}
        /\ EverySectionHasBody(DocxBody)

\* the optional sections of the feature builder: field, title, and the fixed
\* section after which the section comes
OptionalSections ==
    { [field |-> "architecture_notes", title |-> "Architecture Notes",
       after |-> "Technical Approach"],
      [field |-> "progress_notes", title |-> "Progress Notes",
       after |-> "Tasks & Progress"] }

\* the titles of the sections of the blocks, in order: the level-1 headings and
\* the headings of the optional sections
SectionSequence(blocks) ==
    LET titles == {o.title : o \in OptionalSections}
        at == SelectSeq([i \in 1..Len(blocks) |-> i],
                        LAMBDA i : /\ blocks[i].block = "heading"
                                   /\ \/ blocks[i].level = 1
                                      \/ blocks[i].level = 2 /\ blocks[i].text \in titles)
    IN [n \in 1..Len(at) |-> blocks[at[n]].text]

\* seq without the elements of the set
Except(seq, set) == SelectSeq(seq, LAMBDA x : x \notin set)

\* C17: in a document of the feature builder, Architecture Notes (Progress
\* Notes) is a section exactly when architecture_notes (progress_notes) is a
\* non-empty text, it then comes right after Technical Approach (Tasks &
\* Progress), and the other sections are the fixed ones in their order.
C17_OptionalSections ==
    (DocxBuilt /\ docx_call.report_type = "feature_dev") =>
        LET sections == SectionSequence(DocxBody)
            Position(title) == CHOOSE n \in 1..Len(sections) : sections[n] = title
        IN /\ \A o \in OptionalSections :
                  LET present == \E n \in 1..Len(sections) : sections[n] = o.title
                  IN /\ present <=> Truthy(Get(docx_call.data, o.field, None))
                     /\ present => sections[Position(o.title) - 1] = o.after
           /\ Except(sections, {o.title : o \in OptionalSections})
                  = FixedSections("feature_dev")

\* C17 witness: a document was built for a record with architecture notes and
\* without progress notes.
C17_Witness ==
    /\ DocxBuilt
    /\ docx_call.report_type = "feature_dev"
    /\ docx_call.choices.notes = {"architecture_notes"}
    /\ \E i \in 1..Len(DocxBody) :
           DocxBody[i] = [block |-> "heading", text |-> "Architecture Notes", level |-> 2]

\* the label of the identifier row of each kind
IdentifierLabel(report_type) ==
    CASE report_type = "feature_dev" -> "Feature"
      [] report_type = "program_mgmt" -> "Program"
      [] report_type = "engineering_init" -> "Initiative"

\* the field holding the identifier of each kind
IdentifierField(report_type) ==
    CASE report_type = "feature_dev" -> "feature_name"
      [] report_type = "program_mgmt" -> "program_name"
      [] report_type = "engineering_init" -> "initiative_name"

\* C18: a built document starts with the title and then one table of two
\* columns, before any section heading; the first row of the table is Project,
\* the second the identifier of the kind, and Author and Date are rows of it,
\* each row holding the record's value.
C18_MetadataTable ==
    DocxBuilt =>
        LET table == DocxBody[2]
            data == docx_call.data
        IN /\ DocxBody[1] = [block |-> "heading", text |-> data.title.str, level |-> 0]
           /\ table.block = "table" /\ table.cols = 2
           /\ \A r \in 1..Len(table.rows) : Len(table.rows[r]) = 2
           /\ table.rows[1] = <<"Project", data.project_name.str>>
           /\ table.rows[2] = <<IdentifierLabel(docx_call.report_type),
                                data[IdentifierField(docx_call.report_type)].str>>
           /\ \E r \in 1..Len(table.rows) : table.rows[r] = <<"Author", data.author.str>>
           /\ \E r \in 1..Len(table.rows) :
                  table.rows[r] = <<"Date", FormatDate(Get(data, "date", None))>>
           /\ \A i \in 3..(HeadingsAt(DocxBody, {1, 2})[1] - 1) :
                  DocxBody[i].block # "table"

\* C18 witness: a document of the initiative builder starts with the title and
\* the table whose second row is Initiative.
C18_Witness ==
    /\ DocxBuilt
    /\ docx_call.report_type = "engineering_init"
    /\ DocxBody[2].block = "table"
    /\ DocxBody[2].rows[2] = <<"Initiative", "Test Initiative">>

\* the arguments of the generate call in `call`, the record aside
ArgsOf(c) ==
    [report_type |-> c.report_type, output_format |-> c.output_format,
     template_name |-> c.template_name]

-----------------------------------------------------------------------------
(* Claims about the remote requests of both clients *)

\* the tasks of task_list that sync_tasks fetches: those with a truthy jira_id
SyncedTasks == SelectSeq(task_list, LAMBDA t : Truthy(Get(t, "jira_id", None)))

\* whether the tracker answers the GET for this issue with an error or not at all
RequestFails(issue_key) ==
    issue_key \notin DOMAIN jira_server \/ "json" \notin DOMAIN jira_server[issue_key]

\* C20: no remote request is retried.  sync_tasks sends one GET for each task
\* with a jira_id and none for the others, and a task whose GET failed is
\* reported as failed and returned as it was passed.  A create_or_update_page
\* call sends at most one lookup and at most one write, and a request of it
\* that failed is its last one: the call has ended by raising.
C20_NoRetry ==
    /\ sync # None =>
           /\ sync.requests =
                  [k \in DOMAIN SyncedTasks |-> Get(SyncedTasks[k], "jira_id", None).str]
           /\ \A k \in DOMAIN SyncedTasks :
                  LET id == Get(SyncedTasks[k], "jira_id", None).str
                  IN RequestFails(id) => sync.printed[k] = [failed |-> id]
           /\ \A i \in DOMAIN task_list :
                  LET jira_id == Get(task_list[i], "jira_id", None)
                  IN (Truthy(jira_id) /\ RequestFails(jira_id.str)) =>
                         sync.updated_tasks[i] = task_list[i]
    /\ \A c \in Clients :
           LET reqs == RequestsOf(c)
           IN /\ Len(reqs) <= 2
              /\ \A i, j \in DOMAIN reqs : i # j => reqs[i].method # reqs[j].method
              /\ \A i \in DOMAIN reqs :
                     reqs[i].status # 200 =>
                         /\ i = Len(reqs)
                         /\ client[c].pc = "done"
                         /\ client[c].result.raised

\* an update refused as a version conflict ended its call, after the two
\* requests of the call
C20_Witness ==
    \E c \in Clients :
        /\ client[c].pc = "done"
        /\ Len(RequestsOf(c)) = 2
        /\ RequestsOf(c)[2].method = "PUT"
        /\ RequestsOf(c)[2].status = 409
        /\ client[c].result.raised

-----------------------------------------------------------------------------
(* Claims about the helper functions *)

\* the priority the claim gives for a name in lower case
PriorityOfName(lower_name) ==
    IF lower_name \in {"highest", "critical", "blocker"} THEN Priority_CRITICAL
    ELSE IF lower_name = "high" THEN Priority_HIGH
    ELSE IF lower_name \in {"medium", "normal"} THEN Priority_MEDIUM
    ELSE Priority_LOW

\* C21: _map_priority is a fixed lookup that ignores the case of the name:
\* highest/critical/blocker give Critical, high gives High, medium/normal give
\* Medium, every other name (the empty one too) gives Low; the result is one
\* of the four priority values.
C21_PriorityLookup ==
    fn_call.op = "_map_priority" =>
        /\ ~fn_result.raised
        /\ fn_result.value \in PriorityValues
        /\ fn_result.value = PriorityOfName(fn_call.lower_name)

\* the name BLOCKER, in capitals, mapped to Critical
C21_Witness ==
    /\ fn_call.op = "_map_priority"
    /\ fn_call.name = "BLOCKER"
    /\ fn_result = Return(Priority_CRITICAL)

\* the command was given what it needs: a config with url and api_token, an
\* .html report file and a space key (as an option or in the config), and the
\* wiki accepts the page
PushIsWellFormed ==
    /\ fn_call.op = "push-confluence"
    /\ "confluence" \in DOMAIN fn_call.config
    /\ {"url", "api_token"} \subseteq DOMAIN fn_call.config.confluence
    /\ Suffix(fn_call.report_file) = ".html"
    /\ (Truthy(fn_call.space) \/ "space_key" \in DOMAIN fn_call.config.confluence)
    /\ ~fn_call.publish.raised

\* C22: push-confluence, given a readable config with url and api_token, an
\* .html report file and a space key, calls create_or_update_page for that
\* space and title and exits successfully.
C22_PushReachesPublish ==
    PushIsWellFormed =>
        /\ fn_result.exit_code = 0
        /\ Len(fn_result.calls) = 1
        /\ fn_result.calls[1].method = "create_or_update_page"

\* C23: render_html with include_css false returns the converted fragment and
\* nothing else: no document declaration, no style block.  With include_css
\* true it returns the fixed document shell around that fragment: the result
\* starts with the document declaration, holds a style block, and is the same
\* head and tail for every text, with the fragment in between.
C23_OptionalShell ==
    fn_call.op = "render_html" =>
        LET fragment == Markdown(fn_call.markdown_text)
            html == fn_result.value
            head == ShellHead \o Css \o ShellBody
        IN /\ ~fn_result.raised
           /\ ~fn_call.include_css =>
                  /\ html = fragment
                  /\ ~Contains(html, "<!DOCTYPE")
                  /\ ~Contains(html, "<style>")
           /\ fn_call.include_css =>
                  /\ StartsWith(html, "<!DOCTYPE html>")
                  /\ Contains(html, "<style>")
                  /\ Len(html) = Len(head) + Len(fragment) + Len(ShellTail)
                  /\ StartsWith(html, head)
                  /\ SubSeq(html, Len(head) + 1, Len(head) + Len(fragment)) = fragment
                  /\ SubSeq(html, Len(html) - Len(ShellTail) + 1, Len(html)) = ShellTail

\* a heading and a paragraph rendered inside the shell
C23_Witness ==
    /\ fn_call.op = "render_html"
    /\ fn_call.include_css
    /\ fn_call.markdown_text =
           <<[kind |-> "h1", text |-> "Heading"], [kind |-> "p", text |-> "Paragraph"]>>
    /\ StartsWith(fn_result.value, "<!DOCTYPE html>")
    /\ Contains(fn_result.value, "<p>Paragraph</p>")

\* C27: in issue_to_task_data, when the issue has no usable custom start date
\* (customfield_10015 absent or null) and has a created timestamp,
\* target_start_date is the date part of created; when it has no usable custom
\* end date (customfield_10016 absent or null) and has a due date,
\* target_end_date is the due date.
C27_DateFallbacks ==
    (fn_call.op = "issue_to_task_data" /\ ~fn_result.raised) =>
        LET fields == Get(fn_call.issue, "fields", EmptyDict)
            task_data == fn_result.value
            created == Get(fields, "created", None)
            due_date == Get(fields, "duedate", None)
        IN /\ (IsNone(Get(fields, "customfield_10015", None)) /\ Truthy(created)) =>
                  /\ "target_start_date" \in DOMAIN task_data
                  /\ task_data.target_start_date = Str(SplitFirst(created.str, "T"))
           /\ (IsNone(Get(fields, "customfield_10016", None)) /\ Truthy(due_date)) =>
                  /\ "target_end_date" \in DOMAIN task_data
                  /\ task_data.target_end_date = due_date

\* the status the claim gives for a name in lower case
StatusOfName ==
    [lower_name \in TrackerNames |->
        CASE lower_name \in {"done", "closed", "resolved", "completed"} -> Status_COMPLETED
          [] lower_name \in {"in progress", "in development", "in review"} ->
                Status_IN_PROGRESS
          [] lower_name \in {"blocked", "impediment"} -> Status_BLOCKED
          [] lower_name \in {"on hold", "paused"} -> Status_ON_HOLD
          [] OTHER -> Status_NOT_STARTED]

\* C30: _map_status is a fixed lookup that ignores the case of the name:
\* done/closed/resolved/completed give Completed, in progress/in development/in
\* review give In Progress, blocked/impediment give Blocked, on hold/paused give
\* On Hold, every other name (the empty one too) gives Not Started; the result
\* is one of the five status values.
C30_StatusLookup ==
    fn_call.op = "_map_status" =>
        /\ fn_result \in {Return(status) : status \in StatusValues}
        /\ fn_result.value = StatusOfName[fn_call.lower_name]

\* the name In Review, as trackers spell it, mapped to In Progress
C30_Witness ==
    /\ fn_call.op = "_map_status"
    /\ fn_call.name = "In Review"
    /\ fn_result = Return(Status_IN_PROGRESS)

====
